---------------------------- MODULE Spec2Model ----------------------------
(***************************************************************************)
(* SafeExpress tracking client: track_multiple_lr_numbers fans a list of   *)
(* LR numbers out over fetch_tracking_status under an asyncio.Semaphore,   *)
(* each fetch retrying transient failures with exponential backoff and     *)
(* handing a decoded body to parse_tracking_response.                      *)
(*                                                                         *)
(* Python text that the code transforms (status text, track date, message) *)
(* is a sequence of one-character strings; text the code only builds from  *)
(* literals is a TLA+ string.  Join turns the former into the latter.      *)
(***************************************************************************)
EXTENDS Integers, Sequences, FiniteSets, TLC

\* ------------------------------------------------------------------ bounds

\* Longest lr_numbers list handed to track_multiple_lr_numbers.
MaxLrNumbers == 2

\* Longest text over TextChars handed to normalize_status.
MaxTextLen == 3
MaxRows == 2

\* ------------------------------------------------------- config.py values

LOST_THRESHOLD_DAYS == 30
MAX_RETRIES == 3
RETRY_DELAY == 1
RETRY_BACKOFF_FACTOR == 2
LR_NUMBER_LENGTH == 12
MAX_CONCURRENT_REQUESTS == 5

\* ------------------------------------------------------------ Python text

RECURSIVE Join(_)
Join(s) == IF s = <<>> THEN "" ELSE Head(s) \o Join(Tail(s))

Uppers == <<"A","B","C","D","E","F","G","H","I","J","K","L","M",
            "N","O","P","Q","R","S","T","U","V","W","X","Y","Z">>
Lowers == <<"a","b","c","d","e","f","g","h","i","j","k","l","m",
            "n","o","p","q","r","s","t","u","v","w","x","y","z">>
Whitespace == {" ", "\t", "\n", "\r"}

IsUpper(c) == \E i \in 1..26 : Uppers[i] = c
IsLower(c) == \E i \in 1..26 : Lowers[i] = c

\* Two characters outside ASCII: LATIN CAPITAL LETTER I WITH DOT ABOVE, an
\* upper-case letter whose lower case is the two characters i and COMBINING
\* DOT ABOVE, and that combining mark, which has no case.
Char_IDotAbove == "<U+0130>"
Char_DotAbove == "<U+0307>"

IsCased(c) == IsUpper(c) \/ IsLower(c) \/ c = Char_IDotAbove

\* str.lower() and str.upper() on one character
LowerChar(c) == IF IsUpper(c) THEN Lowers[CHOOSE i \in 1..26 : Uppers[i] = c] ELSE c
UpperChar(c) == IF IsLower(c) THEN Uppers[CHOOSE i \in 1..26 : Lowers[i] = c] ELSE c

\* The lower case of one character as str.lower() and str.title() write it:
\* one character, or two for Char_IDotAbove.
LowerSeq(c) == IF c = Char_IDotAbove THEN <<"i", Char_DotAbove>> ELSE <<LowerChar(c)>>

RECURSIVE Flatten(_)
Flatten(parts) == IF parts = <<>> THEN <<>> ELSE Head(parts) \o Flatten(Tail(parts))

\* str.lower()
str_lower(s) == Flatten([i \in 1..Len(s) |-> LowerSeq(s[i])])

\* str.strip(): leading and trailing whitespace removed
RECURSIVE LStrip(_)
LStrip(s) == IF s # <<>> /\ Head(s) \in Whitespace THEN LStrip(Tail(s)) ELSE s
RECURSIVE RStrip(_)
RStrip(s) ==
    IF s # <<>> /\ s[Len(s)] \in Whitespace THEN RStrip(SubSeq(s, 1, Len(s) - 1)) ELSE s
str_strip(s) == RStrip(LStrip(s))

\* str_title as str.capitalize(): only the first character in upper case.
str_title_Capitalize(s) ==
    [i \in 1..Len(s) |-> IF i > 1 THEN LowerChar(s[i]) ELSE UpperChar(s[i])]

\* str.title(): a cased character is upper-cased when the character before
\* it is not cased, lower-cased when it is; other characters are kept.
str_title(s) ==
    Flatten([i \in 1..Len(s) |->
        IF i > 1 /\ IsCased(s[i - 1]) THEN LowerSeq(s[i]) ELSE <<UpperChar(s[i])>>])

\* ------------------------------------------------------ status_normalizer

\* status_map of normalize_status: key (lower case) -> canonical text
status_map_keys ==
    { <<"d","e","l","i","v","e","r","e","d">>,
      <<"i","n","-","t","r","a","n","s","i","t">>,
      <<"i","n"," ","t","r","a","n","s","i","t">>,
      <<"l","o","s","t">>,
      <<"o","u","t"," ","f","o","r"," ","d","e","l","i","v","e","r","y">>,
      <<"n","o","t"," ","f","o","u","n","d">> }

status_map(k) ==
    CASE k = <<"d","e","l","i","v","e","r","e","d">> -> "Delivered"
      [] k = <<"i","n","-","t","r","a","n","s","i","t">> -> "In-transit"
      [] k = <<"i","n"," ","t","r","a","n","s","i","t">> -> "In-transit"
      [] k = <<"l","o","s","t">> -> "LOST"
      [] k = <<"o","u","t"," ","f","o","r"," ","d","e","l","i","v","e","r","y">>
            -> "Out for Delivery"
      [] k = <<"n","o","t"," ","f","o","u","n","d">> -> "NOT FOUND"

\* normalize_status without lower() at line 27.
normalize_status_CaseSensitive(status) ==
    IF status = <<>> THEN ""
    ELSE LET status_lower == str_strip(status)
         IN  IF status_lower \in status_map_keys
             THEN status_map(status_lower)
             ELSE Join(str_title(status))

\* normalize_status on a str argument
normalize_status(status) ==
    IF status = <<>> THEN ""
    ELSE LET status_lower == str_strip(str_lower(status))
         IN  IF status_lower \in status_map_keys
             THEN status_map(status_lower)
             ELSE Join(str_title(status))


\* ------------------------------------------------------------ JSON values

\* What json.loads returns: None, str, int, list or dict, tagged by type.
JNull == [t |-> "null"]
JStr(s) == [t |-> "str", v |-> s]
JNum(n) == [t |-> "num", v |-> n]
JArr(a) == [t |-> "arr", v |-> a]
JObj(f) == [t |-> "obj", v |-> f]

\* bool(v) is False
Falsy(x) ==
    CASE x.t = "null" -> TRUE
      [] x.t = "str" -> x.v = <<>>
      [] x.t = "num" -> x.v = 0
      [] x.t = "arr" -> x.v = <<>>
      [] x.t = "obj" -> DOMAIN x.v = {}

\* type(v).__name__
PyType(x) ==
    CASE x.t = "null" -> "NoneType"
      [] x.t = "str" -> "str"
      [] x.t = "num" -> "int"
      [] x.t = "arr" -> "list"
      [] x.t = "obj" -> "dict"

\* dict.get(key, default) on a dict
DictGet(d, key, default) == IF key \in DOMAIN d.v THEN d.v[key] ELSE default

\* The None of a result field.
None == "<None>"

\* A JSON value stored in a result field: text as it is, null as None.
FieldValue(x) ==
    CASE x.t = "str" -> Join(x.v)
      [] x.t = "null" -> None
      [] OTHER -> "<" \o PyType(x) \o ">"

\* str(e) of the AttributeError raised by x.attr on a value without it
AttributeError(x, attr) ==
    "'" \o PyType(x) \o "' object has no attribute '" \o attr \o "'"

\* ------------------------------------------------------ datetime.strptime

Digits == <<"0","1","2","3","4","5","6","7","8","9">>
IsDigit(c) == \E i \in 1..10 : Digits[i] = c
DigitVal(c) == (CHOOSE i \in 1..10 : Digits[i] = c) - 1

RECURSIVE IntOf(_)
IntOf(s) == IF s = <<>> THEN 0 ELSE 10 * IntOf(SubSeq(s, 1, Len(s) - 1)) + DigitVal(s[Len(s)])

\* Length of the run of digits of s that starts at position i.
RECURSIVE DigitRun(_, _)
DigitRun(s, i) == IF i <= Len(s) /\ IsDigit(s[i]) THEN 1 + DigitRun(s, i + 1) ELSE 0

\* Length of the run of whitespace of s that starts at position i.
RECURSIVE SpaceRun(_, _)
SpaceRun(s, i) == IF i <= Len(s) /\ s[i] \in Whitespace THEN 1 + SpaceRun(s, i + 1) ELSE 0

IsLeap(y) == (y % 4 = 0 /\ y % 100 # 0) \/ y % 400 = 0
DaysInMonth(y, m) ==
    IF m = 2 THEN (IF IsLeap(y) THEN 29 ELSE 28)
    ELSE IF m \in {4, 6, 9, 11} THEN 30 ELSE 31

\* Proleptic Gregorian day number of y-m-d (date.toordinal up to a constant).
DayNumber(y, m, d) ==
    LET yy == IF m <= 2 THEN y - 1 ELSE y
        era == yy \div 400
        yoe == yy - era * 400
        mp == IF m > 2 THEN m - 3 ELSE m + 9
        doy == (153 * mp + 2) \div 5 + d - 1
        doe == yoe * 365 + yoe \div 4 - yoe \div 100 + doy
    IN  era * 146097 + doe

\* A datetime: its day number and the second of that day.
NoDate == [ok |-> FALSE, day |-> 0, sec |-> 0]

\* datetime.strptime(s, "%Y-%m-%d %H:%M:%S"): %Y is four digits, the other
\* fields one or two digits in their range (month and day not zero), the
\* blank of the format any run of whitespace, and the text must end with
\* the seconds.  NoDate stands for the ValueError.
strptime(s) ==
    LET yN == DigitRun(s, 1)
        mS == yN + 2
        mN == DigitRun(s, mS)
        dS == mS + mN + 1
        dN == DigitRun(s, dS)
        wS == dS + dN
        wN == SpaceRun(s, wS)
        hS == wS + wN
        hN == DigitRun(s, hS)
        iS == hS + hN + 1
        iN == DigitRun(s, iS)
        sS == iS + iN + 1
        sN == DigitRun(s, sS)
        shape ==
            /\ yN = 4 /\ mN \in {1, 2} /\ dN \in {1, 2} /\ wN >= 1
            /\ hN \in {1, 2} /\ iN \in {1, 2} /\ sN \in {1, 2}
            /\ Len(s) = sS + sN - 1
            /\ s[yN + 1] = "-" /\ s[mS + mN] = "-"
            /\ s[hS + hN] = ":" /\ s[iS + iN] = ":"
        y == IntOf(SubSeq(s, 1, 4))
        m == IntOf(SubSeq(s, mS, mS + mN - 1))
        d == IntOf(SubSeq(s, dS, dS + dN - 1))
        h == IntOf(SubSeq(s, hS, hS + hN - 1))
        mi == IntOf(SubSeq(s, iS, iS + iN - 1))
        se == IntOf(SubSeq(s, sS, sS + sN - 1))
    IN  IF ~shape THEN NoDate
        ELSE IF /\ y >= 1 /\ m \in 1..12 /\ d >= 1 /\ d <= DaysInMonth(y, m)
                /\ h <= 23 /\ mi <= 59 /\ se <= 59
             THEN [ok |-> TRUE, day |-> DayNumber(y, m, d), sec |-> 3600 * h + 60 * mi + se]
             ELSE NoDate

\* (a - b).days of two datetimes: whole days, rounded down.
timedelta_days(a, b) == IF a.sec >= b.sec THEN a.day - b.day ELSE a.day - b.day - 1

\* ------------------------------------------------- parse_tracking_response

\* ErrorResult that does not carry the LR number of the request.
ErrorResult_Unkeyed(lr_number, status, error) ==
    [lr_number |-> "UNKNOWN", status |-> status, error |-> error]

\* The three-key result of a failure and the five-key result of a parsed entry.
ErrorResult(lr_number, status, error) ==
    [lr_number |-> lr_number, status |-> status, error |-> error]

\* The except clause of parse_tracking_response: str(e) is in the error.
ParseError(lr_number, msg) == ErrorResult(lr_number, "ERROR", "Parse error: " \o msg)

Chars_Ok == <<"O", "k">>
Chars_InvalidAPIResponse ==
    <<"I","n","v","a","l","i","d"," ","A","P","I"," ","r","e","s","p","o","n","s","e">>

\* x == "text" for a JSON value x
IsText(x, chars) == x.t = "str" /\ x.v = chars

\* seq[0] of a truthy value
FirstItem(x) ==
    CASE x.t = "arr" -> [ok |-> TRUE, v |-> x.v[1], msg |-> ""]
      [] x.t = "str" -> [ok |-> TRUE, v |-> JStr(<<x.v[1]>>), msg |-> ""]
      [] x.t = "obj" -> [ok |-> FALSE, v |-> JNull, msg |-> "0"]
      [] OTHER -> [ok |-> FALSE, v |-> JNull,
                   msg |-> "'" \o PyType(x) \o "' object is not subscriptable"]

\* LastItem reading seq[0], the oldest entry.
LastItem_First(x) ==
    CASE x.t = "arr" -> [ok |-> TRUE, v |-> x.v[1], msg |-> ""]
      [] x.t = "str" -> [ok |-> TRUE, v |-> JStr(<<x.v[1]>>), msg |-> ""]
      [] x.t = "obj" -> [ok |-> FALSE, v |-> JNull, msg |-> "-1"]
      [] OTHER -> [ok |-> FALSE, v |-> JNull,
                   msg |-> "'" \o PyType(x) \o "' object is not subscriptable"]

\* seq[-1] of a truthy value
LastItem(x) ==
    CASE x.t = "arr" -> [ok |-> TRUE, v |-> x.v[Len(x.v)], msg |-> ""]
      [] x.t = "str" -> [ok |-> TRUE, v |-> JStr(<<x.v[Len(x.v)]>>), msg |-> ""]
      [] x.t = "obj" -> [ok |-> FALSE, v |-> JNull, msg |-> "-1"]
      [] OTHER -> [ok |-> FALSE, v |-> JNull,
                   msg |-> "'" \o PyType(x) \o "' object is not subscriptable"]

\* Lines 202-208: the track date, None when the text is empty, is no str
\* or does not match the format.
ParsedTrackDate(track_date_str) ==
    IF Falsy(track_date_str) \/ track_date_str.t # "str" THEN NoDate
    ELSE strptime(track_date_str.v)

\* StalenessOverride taking a track date that is None for an old one.
StalenessOverride_NoneIsOld(status_text, track_date, now) ==
    IF status_text = "In-transit"
       /\ (~track_date.ok \/ timedelta_days(now, track_date) > LOST_THRESHOLD_DAYS)
    THEN "LOST"
    ELSE status_text

\* StalenessOverride with >= in the place of > at line 213.
StalenessOverride_AtThreshold(status_text, track_date, now) ==
    IF status_text = "In-transit" /\ track_date.ok
       /\ timedelta_days(now, track_date) >= LOST_THRESHOLD_DAYS
    THEN "LOST"
    ELSE status_text

\* StalenessOverride without the test of the status at line 211.
StalenessOverride_AnyStatus(status_text, track_date, now) ==
    IF track_date.ok /\ timedelta_days(now, track_date) > LOST_THRESHOLD_DAYS
    THEN "LOST"
    ELSE status_text

\* Lines 210-215: In-transit for more than LOST_THRESHOLD_DAYS days is LOST.
StalenessOverride(status_text, track_date, now) ==
    IF status_text = "In-transit" /\ track_date.ok
       /\ timedelta_days(now, track_date) > LOST_THRESHOLD_DAYS
    THEN "LOST"
    ELSE status_text

\* Lines 195-223, latest_status being the last status entry.
LatestStatusResult(latest_status, lr_number, now) ==
    IF latest_status.t # "obj"
    THEN ParseError(lr_number, AttributeError(latest_status, "get"))
    ELSE LET raw == DictGet(latest_status, "status", JStr(<<>>))
             track_date_str == DictGet(latest_status, "trackDate", JStr(<<>>))
             mode == DictGet(latest_status, "mode", JStr(<<>>))
         IN  IF ~Falsy(raw) /\ raw.t # "str"
             THEN ParseError(lr_number, AttributeError(raw, "lower"))
             ELSE LET status_text ==
                          IF Falsy(raw) THEN "" ELSE normalize_status(raw.v)
                  IN  [lr_number |-> lr_number,
                       status |-> StalenessOverride(status_text,
                                      ParsedTrackDate(track_date_str), now),
                       track_date |-> FieldValue(track_date_str),
                       mode |-> FieldValue(mode),
                       error |-> None]

\* TrackingResult reading the last tracking record instead of the first.
TrackingResult_LastRecord(tracking_data, lr_number, now) ==
    LET first == LastItem(tracking_data)
    IN  IF ~first.ok THEN ParseError(lr_number, first.msg)
        ELSE IF first.v.t # "obj"
        THEN ParseError(lr_number, AttributeError(first.v, "get"))
        ELSE LET statuses == DictGet(first.v, "status", JArr(<<>>))
             IN  IF Falsy(statuses)
                 THEN ErrorResult(lr_number, "NOT FOUND", "No status information")
                 ELSE LET last == LastItem(statuses)
                      IN  IF ~last.ok THEN ParseError(lr_number, last.msg)
                          ELSE LatestStatusResult(last.v, lr_number, now)

\* Lines 183-193, tracking_data being truthy.
TrackingResult(tracking_data, lr_number, now) ==
    LET first == FirstItem(tracking_data)
    IN  IF ~first.ok THEN ParseError(lr_number, first.msg)
        ELSE IF first.v.t # "obj"
        THEN ParseError(lr_number, AttributeError(first.v, "get"))
        ELSE LET statuses == DictGet(first.v, "status", JArr(<<>>))
             IN  IF Falsy(statuses)
                 THEN ErrorResult(lr_number, "NOT FOUND", "No status information")
                 ELSE LET last == LastItem(statuses)
                      IN  IF ~last.ok THEN ParseError(lr_number, last.msg)
                          ELSE LatestStatusResult(last.v, lr_number, now)

\* parse_tracking_response with get("data") in the place of get("data", {}):
\* a payload without data fails on None.get.
parse_tracking_response_NoDataDefault(data, lr_number, now) ==
    IF data.t # "obj" THEN ParseError(lr_number, AttributeError(data, "get"))
    ELSE IF ~IsText(DictGet(data, "status", JNull), Chars_Ok)
    THEN ErrorResult(lr_number, "NOT FOUND",
             FieldValue(DictGet(data, "message", JStr(Chars_InvalidAPIResponse))))
    ELSE LET d == DictGet(data, "data", JNull)
         IN  IF d.t # "obj" THEN ParseError(lr_number, AttributeError(d, "get"))
             ELSE LET tracking_data == DictGet(d, "tracking", JArr(<<>>))
                  IN  IF Falsy(tracking_data)
                      THEN ErrorResult(lr_number, "NOT FOUND", "No tracking data")
                      ELSE TrackingResult(tracking_data, lr_number, now)

\* parse_tracking_response(data, lr_number), now being datetime.now().
parse_tracking_response(data, lr_number, now) ==
    IF data.t # "obj" THEN ParseError(lr_number, AttributeError(data, "get"))
    ELSE IF ~IsText(DictGet(data, "status", JNull), Chars_Ok)
    THEN ErrorResult(lr_number, "NOT FOUND",
             FieldValue(DictGet(data, "message", JStr(Chars_InvalidAPIResponse))))
    ELSE LET d == DictGet(data, "data", JObj(<<>>))
         IN  IF d.t # "obj" THEN ParseError(lr_number, AttributeError(d, "get"))
             ELSE LET tracking_data == DictGet(d, "tracking", JArr(<<>>))
                  IN  IF Falsy(tracking_data)
                      THEN ErrorResult(lr_number, "NOT FOUND", "No tracking data")
                      ELSE TrackingResult(tracking_data, lr_number, now)

\* ---------------------------------------------------- fetch_tracking_status

\* What one POST of fetch_tracking_status meets.  kind is
\*   "timeout"       asyncio.TimeoutError out of session.post
\*   "client_error"  aiohttp.ClientError out of session.post
\*   "unexpected"    any other Exception out of session.post
\*   "http"          a response whose status is code, not 200
\*   "empty"         200, the text empty or blank (ValueError, line 76)
\*   "malformed"     200, json.loads raises JSONDecodeError (line 83)
\*   "body_exc"      200, response.text() raises an Exception that is no
\*                   ValueError (a timeout or a payload error while the body
\*                   is read), caught at line 104
\*   "json"          200, json.loads returns body
Response(kind, code, body) == [kind |-> kind, code |-> code, body |-> body]

TransientKinds == {"timeout", "client_error", "empty", "malformed"}

\* type(e).__name__ of the exception a response kind raises
ExceptionName(kind) ==
    CASE kind = "timeout" -> "TimeoutError"
      [] kind = "client_error" -> "ClientConnectorError"
      [] kind = "unexpected" -> "RuntimeError"
      [] kind = "empty" -> "ValueError"
      [] kind = "malformed" -> "JSONDecodeError"
      [] kind = "body_exc" -> "ClientPayloadError"
      [] OTHER -> ""

\* str(e) of that exception
ExceptionText(kind) ==
    CASE kind = "unexpected" -> "Session is closed"
      [] kind = "body_exc" -> "Response payload is not completed"
      [] kind = "empty" -> "Empty response from API"
      [] OTHER -> ""

\* ShouldRetry with the comparison off by one, either way.
ShouldRetry_OneMore(retry_count) == retry_count <= MAX_RETRIES
ShouldRetry_OneLess(retry_count) == retry_count + 1 < MAX_RETRIES

\* Lines 88, 119, 131: retry_count < MAX_RETRIES
ShouldRetry(retry_count) == retry_count < MAX_RETRIES

\* BackoffDelay growing by RETRY_DELAY each time instead of by the factor.
BackoffDelay_Linear(retry_count) == RETRY_DELAY * (retry_count + 1)

\* Lines 89, 120, 132: RETRY_DELAY * (RETRY_BACKOFF_FACTOR ** retry_count)
BackoffDelay(retry_count) == RETRY_DELAY * RETRY_BACKOFF_FACTOR ^ retry_count

\* What a fetch does with a response: sleep delay and call itself again,
\* return result, or end with an exception that none of its except clauses
\* catches.
Retry(delay) == [act |-> "retry", delay |-> delay, result |-> [pending |-> TRUE]]
Return(result) == [act |-> "return", delay |-> 0, result |-> result]
Raise(name) == [act |-> "raise", delay |-> 0, result |-> [exception |-> name]]

\* ExhaustedResult with the message of the timeout clause in every clause.
ExhaustedResult_Timeout(lr_number, kind) ==
    ErrorResult(lr_number, "ERROR", "API Timeout (after retries)")

\* Lines 99-103, 125-129, 137-141: the result once the retries are used up.
ExhaustedResult(lr_number, kind) ==
    CASE kind \in {"empty", "malformed"} ->
             ErrorResult(lr_number, "ERROR",
                 "JSON parse error after retries: " \o ExceptionName(kind))
      [] kind = "timeout" ->
             ErrorResult(lr_number, "ERROR", "API Timeout (after retries)")
      [] kind = "client_error" ->
             ErrorResult(lr_number, "ERROR",
                 "HTTP Error: " \o ExceptionName(kind) \o " (after retries)")

\* Lines 86-103, 118-141: the three retrying except clauses.
TransientOutcome(lr_number, retry_count, kind) ==
    IF ShouldRetry(retry_count)
    THEN Retry(BackoffDelay(retry_count))
    ELSE Return(ExhaustedResult(lr_number, kind))

\* HttpErrorOutcome retrying like the transient clauses.
HttpErrorOutcome_Retried(lr_number, retry_count, code) ==
    IF ShouldRetry(retry_count)
    THEN Retry(BackoffDelay(retry_count))
    ELSE Return(ErrorResult(lr_number, "ERROR", "HTTP " \o ToString(code)))

\* Lines 111-117: a status that is not 200.
HttpErrorOutcome(lr_number, retry_count, code) ==
    Return(ErrorResult(lr_number, "ERROR", "HTTP " \o ToString(code)))

\* Lines 104-110: an Exception of the inner try that is no ValueError.
BodyExceptionOutcome(lr_number, retry_count, kind) ==
    Return(ErrorResult(lr_number, "ERROR",
        "Parse error: " \o ExceptionName(kind) \o " - " \o ExceptionText(kind)))

\* UnexpectedOutcome without the last except clause.
UnexpectedOutcome_Uncaught(lr_number, retry_count, kind) == Raise(ExceptionName(kind))

\* Lines 142-148: any other Exception of the outer try.
UnexpectedOutcome(lr_number, retry_count, kind) ==
    Return(ErrorResult(lr_number, "ERROR",
        ExceptionName(kind) \o ": " \o ExceptionText(kind)))

\* JsonOutcome that treats an "ERROR" result of the parser as line 86 treats
\* a body json.loads rejects: sleep and ask again.
JsonOutcome_RetryOnParseError(lr_number, retry_count, body, now) ==
    LET result == parse_tracking_response(body, lr_number, now)
    IN  IF result.status = "ERROR" /\ ShouldRetry(retry_count)
        THEN Retry(BackoffDelay(retry_count))
        ELSE Return(result)

\* Line 85: a decoded body goes to parse_tracking_response.
JsonOutcome(lr_number, retry_count, body, now) ==
    Return(parse_tracking_response(body, lr_number, now))

\* One attempt of fetch_tracking_status(session, lr_number, retry_count),
\* lines 38-148, on the response resp.
fetch_tracking_status(lr_number, retry_count, resp, now) ==
    CASE resp.kind \in TransientKinds ->
             TransientOutcome(lr_number, retry_count, resp.kind)
      [] resp.kind = "http" -> HttpErrorOutcome(lr_number, retry_count, resp.code)
      [] resp.kind = "body_exc" -> BodyExceptionOutcome(lr_number, retry_count, resp.kind)
      [] resp.kind = "unexpected" -> UnexpectedOutcome(lr_number, retry_count, resp.kind)
      [] resp.kind = "json" -> JsonOutcome(lr_number, retry_count, resp.body, now)

\* --------------------------------------------------- the tracking service

\* A status entry, a payload that reports success, and one that does not
\* (section "Wire response" of the service).
StatusEntry(status, trackDate, mode) ==
    JObj([status |-> JStr(status), trackDate |-> JStr(trackDate), mode |-> JStr(mode)])
OkPayload(statuses) ==
    JObj([status |-> JStr(Chars_Ok),
          data |-> JObj([tracking |-> JArr(<<JObj([status |-> JArr(statuses)])>>)])])
FailPayload(status, message) ==
    JObj([status |-> JStr(status), message |-> JStr(message)])

Chars_Surface == <<"S","u","r","f","a","c","e">>
Entry_Booked == StatusEntry(<<"B","O","O","K","E","D">>, <<"2","0","2","4","-","0","4","-","2","8"," ","0","8",":","1","5",":","0","0">>, Chars_Surface)
Entry_Delivered == StatusEntry(<<"D","E","L","I","V","E","R","E","D">>, <<"2","0","2","4","-","0","6","-","1","0"," ","0","9",":","3","0",":","0","0">>, Chars_Surface)
Entry_InTransitOld == StatusEntry(<<"I","N","-","T","R","A","N","S","I","T">>, <<"2","0","2","4","-","0","5","-","0","1"," ","1","8",":","0","0",":","0","0">>, Chars_Surface)

Payload_Delivered == OkPayload(<<Entry_Booked, Entry_Delivered>>)
Payload_Stale == OkPayload(<<Entry_Booked, Entry_InTransitOld>>)
Payload_NotOk == FailPayload(<<"E","r","r","o","r">>, <<"N","o"," ","d","a","t","a"," ","f","o","u","n","d">>)
Payload_NoTracking == JObj([status |-> JStr(Chars_Ok), data |-> JObj([tracking |-> JArr(<<>>)])])
Payload_List == JArr(<<>>)

\* datetime.now() of the run: 2024-06-15 12:00:00.
Now == [ok |-> TRUE, day |-> DayNumber(2024, 6, 15), sec |-> 43200]

\* The responses the service gives to a fetch.
ServerPayloads ==
    {Payload_Delivered, Payload_Stale, Payload_NotOk, Payload_NoTracking, Payload_List}
ServerResponses ==
    {Response(k, 0, JNull) : k \in TransientKinds \cup {"unexpected", "body_exc"}}
    \cup {Response("http", c, JNull) : c \in {404, 500}}
    \cup {Response("json", 200, b) : b \in ServerPayloads}

\* The responses the service gives in a batch of several fetches: one that
\* is retried, one that parses to a status and one that reports a failure.
BatchResponses ==
    {Response("timeout", 0, JNull),
     Response("json", 200, Payload_Delivered),
     Response("json", 200, Payload_NotOk)}

\* The LR numbers of a batch; the empty text is the falsy one of line 269.
LrNumbers == {"", "LR-A", "LR-B"}

RECURSIVE SeqsUpTo(_, _)
SeqsUpTo(S, n) ==
    IF n = 0 THEN {<<>>}
    ELSE LET shorter == SeqsUpTo(S, n - 1)
         IN  shorter \cup {Append(q, x) : q \in {r \in shorter : Len(r) = n - 1}, x \in S}

\* LR numbers are opaque keys: of the lists that differ only by exchanging
\* "LR-A" and "LR-B", the one that names "LR-A" first is taken.
LrNumberLists ==
    {l \in SeqsUpTo(LrNumbers, MaxLrNumbers) \ {<<>>} :
        \A i \in 1..Len(l) : l[i] = "LR-B" => \E j \in 1..(i - 1) : l[j] = "LR-A"}

\* ------------------------------------------ payloads given to the parser

\* A dict of the given (key, value) pairs, and the sets of pairs that hold
\* key with one of values or do not hold it.
Dict(pairs) == JObj([k \in {p[1] : p \in pairs} |-> (CHOOSE p \in pairs : p[1] = k)[2]])
Optional(key, values) == {{<<key, v>>} : v \in values} \cup {{}}

\* One record of data.tracking, and a payload with status "Ok" of records.
TrackingRecord(statuses) == JObj([status |-> JArr(statuses)])
OkPayloadOf(records) ==
    JObj([status |-> JStr(Chars_Ok), data |-> JObj([tracking |-> JArr(records)])])

Chars_Error == <<"E","r","r","o","r">>
Chars_NoDataFound == <<"N","o"," ","d","a","t","a"," ","f","o","u","n","d">>

\* Payloads whose top-level status is not "Ok": the field missing, another
\* text, "ok" in lower case, null or a number; message and data missing,
\* null, empty or filled.
NotOkStatuses == {JStr(Chars_Error), JStr(<<"o","k">>), JStr(<<>>), JNull, JNum(200)}
Messages == {JStr(Chars_NoDataFound), JStr(<<>>), JNull, JNum(404)}
DataValues ==
    {JNull, JObj(<<>>), JArr(<<>>),
     JObj([tracking |-> JArr(<<TrackingRecord(<<Entry_Booked, Entry_Delivered>>)>>)])}
NotOkPayloads ==
    {Dict(s \cup m \cup d) :
        s \in Optional("status", NotOkStatuses),
        m \in Optional("message", Messages),
        d \in Optional("data", DataValues)}

\* Payloads with status "Ok" and no tracking record: data missing, null or
\* a dict whose tracking is missing or falsy.
EmptyTrackings == {JArr(<<>>), JNull, JStr(<<>>), JObj(<<>>), JNum(0)}
EmptyDataValues ==
    {JNull, JObj(<<>>)} \cup {Dict({<<"tracking", t>>}) : t \in EmptyTrackings}
NoTrackingPayloads ==
    {Dict({<<"status", JStr(Chars_Ok)>>} \cup m \cup d) :
        m \in Optional("message", {JStr(Chars_NoDataFound)}),
        d \in Optional("data", EmptyDataValues)}

\* Payloads whose first tracking record has no status entry: the list
\* missing, empty or null, alone or before a record that has entries.
NoStatusRecords == {JObj(<<>>), TrackingRecord(<<>>), JObj([status |-> JNull])}
LaterRecords == {<<>>, <<TrackingRecord(<<Entry_Booked, Entry_Delivered>>)>>}
NoStatusPayloads ==
    {OkPayloadOf(<<first>> \o later) : first \in NoStatusRecords, later \in LaterRecords}

\* The status texts of a last entry.
Chars_InTransitUpper == <<"I","N","-","T","R","A","N","S","I","T">>
Chars_InTransitBlank == <<"I","n"," ","T","r","a","n","s","i","t">>
Chars_InTransitPadded == <<" ","i","n","-","t","r","a","n","s","i","t"," ">>
Chars_DeliveredUpper == <<"D","E","L","I","V","E","R","E","D">>
Chars_OutForDelivery == <<"O","u","t"," ","F","o","r"," ","D","e","l","i","v","e","r","y">>
Chars_LostLower == <<"l","o","s","t">>
Chars_Booked == <<"B","O","O","K","E","D">>
Chars_ArrivedAtHub == <<"a","r","r","i","v","e","d"," ","a","t"," ","h","u","b">>
StatusTexts ==
    {Chars_InTransitUpper,
     Chars_InTransitBlank,
     Chars_InTransitPadded,
     Chars_DeliveredUpper,
     Chars_OutForDelivery,
     Chars_LostLower,
     Chars_Booked,
     Chars_ArrivedAtHub, <<>>}

\* Track date texts that strptime parses; Now is 2024-06-15 12:00:00.
Date_35Days == <<"2","0","2","4","-","0","5","-","1","1"," ","1","2",":","0","0",":","0","0">>
Date_10Days == <<"2","0","2","4","-","0","6","-","0","5"," ","1","2",":","0","0",":","0","0">>
Date_30Days == <<"2","0","2","4","-","0","5","-","1","6"," ","1","2",":","0","0",":","0","0">>
Date_30DaysAndMore == <<"2","0","2","4","-","0","5","-","1","5"," ","1","2",":","0","0",":","0","1">>
Date_31Days == <<"2","0","2","4","-","0","5","-","1","5"," ","1","2",":","0","0",":","0","0">>
Date_Future == <<"2","0","2","4","-","0","7","-","0","1"," ","0","0",":","0","0",":","0","0">>
Date_LeapDay == <<"2","0","2","0","-","0","2","-","2","9"," ","2","3",":","5","9",":","5","9">>
Date_ShortFields == <<"2","0","2","4","-","5","-","1"," ","8",":","0",":","0">>
ParsedDates ==
    {Date_35Days,
     Date_10Days,
     Date_30Days,
     Date_30DaysAndMore,
     Date_31Days,
     Date_Future,
     Date_LeapDay,
     Date_ShortFields}

\* Track date texts that strptime rejects with a ValueError.
Date_NoTime == <<"2","0","2","4","-","0","5","-","0","1">>
Date_Slashes == <<"0","1","/","0","5","/","2","0","2","4"," ","1","8",":","0","0",":","0","0">>
Date_Month13 == <<"2","0","2","4","-","1","3","-","0","1"," ","0","0",":","0","0",":","0","0">>
Date_Feb29 == <<"2","0","2","3","-","0","2","-","2","9"," ","1","0",":","0","0",":","0","0">>
Date_IsoT == <<"2","0","2","4","-","0","5","-","0","1","T","1","8",":","0","0",":","0","0">>
Date_Fraction == <<"2","0","2","4","-","0","5","-","0","1"," ","1","8",":","0","0",":","0","0",".","5">>
Date_Hour24 == <<"2","0","2","4","-","0","5","-","0","1"," ","2","4",":","0","0",":","0","0">>
Date_NA == <<"N","/","A">>
RejectedDates ==
    {Date_NoTime,
     Date_Slashes,
     Date_Month13,
     Date_Feb29,
     Date_IsoT,
     Date_Fraction,
     Date_Hour24,
     Date_NA}

\* The last entries: status, trackDate and mode each missing or given, the
\* date also empty or null.
LastEntries ==
    {Dict(s \cup d \cup m) :
        s \in Optional("status", {JStr(t) : t \in StatusTexts}),
        d \in Optional("trackDate",
                 {JStr(t) : t \in ParsedDates \cup RejectedDates \cup {<<>>}} \cup {JNull}),
        m \in Optional("mode", {JStr(Chars_Surface)})}

\* Payloads that pass validation: the first record ends with a last entry,
\* after earlier entries or none, before another record or none.
EarlierEntries == {<<>>, <<Entry_Booked>>, <<Entry_InTransitOld, Entry_Delivered>>}
OtherRecords == {<<>>, <<TrackingRecord(<<Entry_InTransitOld>>)>>}
EntryPayloads ==
    {OkPayloadOf(<<TrackingRecord(Append(earlier, last))>> \o other) :
        earlier \in EarlierEntries, last \in LastEntries, other \in OtherRecords}

\* The payloads the parser is given.
ParsePayloads ==
    NotOkPayloads \cup NoTrackingPayloads \cup NoStatusPayloads \cup EntryPayloads
ParseResponses == {Response("json", 200, b) : b \in ParsePayloads}


\* ------------------------------------------- payloads of an unexpected shape

\* Values json.loads can return that are no dict.
NonObjects ==
    {JNull, JStr(<<>>), JStr(<<"x">>), JNum(0), JNum(5), JArr(<<>>), JArr(<<JNull>>)}

\* Bodies that are valid JSON: no dict at the top; status "Ok" and data no
\* dict; a first tracking record that is no dict, alone or before a good
\* record; a last status entry that is no dict, alone or after a good entry.
MisshapenPayloads ==
    NonObjects
    \cup {JObj([status |-> JStr(Chars_Ok), data |-> w]) : w \in NonObjects}
    \cup {OkPayloadOf(<<w>>) : w \in NonObjects}
    \cup {OkPayloadOf(<<w, TrackingRecord(<<Entry_Delivered>>)>>) : w \in NonObjects}
    \cup {OkPayload(<<w>>) : w \in NonObjects}
    \cup {OkPayload(<<Entry_Booked, w>>) : w \in NonObjects}

\* Bodies with a value that is no dict in a place line 163-231 do not read
\* it as one: a later tracking record, an earlier status entry, data under
\* a status that is not "Ok"; and the body of a delivered consignment.
ToleratedPayloads ==
    {OkPayloadOf(<<TrackingRecord(<<Entry_Delivered>>), w>>) : w \in NonObjects}
    \cup {OkPayload(<<w, Entry_Delivered>>) : w \in NonObjects}
    \cup {JObj([status |-> JStr(Chars_Error), data |-> w]) : w \in NonObjects}
    \cup {Payload_Delivered}

ShapePayloads == MisshapenPayloads \cup ToleratedPayloads
ShapeResponses ==
    {Response("json", 200, b) : b \in ShapePayloads}
    \cup {Response("timeout", 0, JNull), Response("malformed", 200, JNull)}

\* ------------------------------------- status texts given to normalize_status

\* The table keys in every mix of upper and lower case.
RECURSIVE CaseVariants(_)
CaseVariants(key) ==
    IF key = <<>> THEN {<<>>}
    ELSE {<<c>> \o rest : c \in {Head(key), UpperChar(Head(key))},
                          rest \in CaseVariants(Tail(key))}

\* The longest key, "out for delivery", has 2^14 variants: its first two
\* words are taken in every mix with the last word in lower case, in upper
\* case, capitalized and alternating, and its last word in every mix with
\* the first two in lower and in upper case.
Key_OutForDelivery == <<"o","u","t"," ","f","o","r"," ","d","e","l","i","v","e","r","y">>
Chars_Out == <<"o","u","t">>
Chars_For == <<"f","o","r">>
Chars_Delivery == <<"d","e","l","i","v","e","r","y">>
ThreeWords(first, second, third) ==
    {a \o <<" ">> \o b \o <<" ">> \o c : a \in first, b \in second, c \in third}
OutForDeliveryVariants ==
    ThreeWords(CaseVariants(Chars_Out), CaseVariants(Chars_For),
               {Chars_Delivery,
                <<"D","E","L","I","V","E","R","Y">>,
                <<"D","e","l","i","v","e","r","y">>,
                <<"d","E","l","I","v","E","r","Y">>})
    \cup ThreeWords({Chars_Out, <<"O","U","T">>}, {Chars_For, <<"F","O","R">>},
                    CaseVariants(Chars_Delivery))
KeyVariants ==
    UNION {CaseVariants(k) : k \in status_map_keys \ {Key_OutForDelivery}}
        \cup OutForDeliveryVariants

\* Table keys between whitespace.
PaddedKeys ==
    {pre \o k \o post : k \in status_map_keys \cup {Chars_InTransitUpper},
                        pre \in {<<>>, <<" ">>}, post \in {<<>>, <<" ">>, <<"\n">>}}

\* Every text of up to MaxTextLen characters of TextChars, and texts of
\* several words.
TextChars == {"a", "B", " ", "-", "1"}
ShortTexts == SeqsUpTo(TextChars, MaxTextLen)
Chars_WeirdStatus == <<"W","e","i","r","d"," ","S","t","a","t","u","s">>
Chars_ThirdDay == <<"3","r","d"," ","d","a","y"," ","a","t"," ","H","U","B">>
Chars_ItsLate == <<"i","t","'","s"," ","l","a","t","e">>
WordTexts ==
    {Chars_WeirdStatus, Chars_ThirdDay, Chars_ItsLate, Chars_Booked, Chars_ArrivedAtHub}

NormalizeTexts == KeyVariants \cup PaddedKeys \cup ShortTexts \cup WordTexts

\* The payloads whose one status entry holds the text, holds null, or holds
\* no status; the entry has no track date.
NormalizePayloads ==
    {OkPayloadOf(<<TrackingRecord(<<Dict(st \cup {<<"mode", JStr(Chars_Surface)>>})>>)>>) :
        st \in Optional("status", {JStr(t) : t \in NormalizeTexts} \cup {JNull})}
NormalizeResponses == {Response("json", 200, b) : b \in NormalizePayloads}

\* A payload whose one status entry holds the text.
StatusPayload(text) ==
    OkPayloadOf(<<TrackingRecord(<<Dict({<<"status", JStr(text)>>,
                                         <<"mode", JStr(Chars_Surface)>>})>>)>>)

\* The text a payload made by StatusPayload holds.
StatusTextOf(payload) ==
    payload.v["data"].v["tracking"].v[1].v["status"].v[1].v["status"].v

\* Texts with the letter whose lower case is two characters.
DottedTexts ==
    {<<Char_IDotAbove>>,
     <<Char_IDotAbove, "a">>,
     <<"a", Char_IDotAbove, "b">>,
     <<"l", "o", Char_IDotAbove, "s", "t">>,
     <<"L", "O", "S", "T", " ", Char_IDotAbove, "N">>}

\* The texts given to normalize_status a first time.
RenormalizeTexts == NormalizeTexts \cup DottedTexts

\* The texts normalize_status can return for raw: line 24, a value of
\* status_map, or line 40.
CanonicalTexts ==
    {<<"D","e","l","i","v","e","r","e","d">>,
     <<"I","n","-","t","r","a","n","s","i","t">>,
     <<"L","O","S","T">>,
     <<"O","u","t"," ","f","o","r"," ","D","e","l","i","v","e","r","y">>,
     <<"N","O","T"," ","F","O","U","N","D">>}
ReturnedTexts(raw) == {<<>>, str_title(raw)} \cup CanonicalTexts

\* ------------------------------------------------ track_multiple_lr_numbers

VARIABLES
    lr_numbers,      \* the argument: the list of LR numbers
    max_concurrent,  \* the argument: the size of the semaphore
    semaphore,       \* the value of asyncio.Semaphore(max_concurrent)
    pc,              \* pc[i]: where task i of line 257 is
    retry_count,     \* retry_count[i]: the parameter of task i's innermost fetch
    json_frame,      \* json_frame[i]: a fetch of task i's call chain waits at line 93
    responses,       \* responses[i]: what gather returns for task i
    results,         \* the results dictionary
    phase,           \* "gather" until line 260 returns, then "done"
    requests,        \* requests[i]: the POSTs task i has sent
    slept,           \* slept[i]: the delays task i has slept, in order
    history,         \* history[i]: the responses task i's POSTs have met, in order
    df,              \* the DataFrame a handler of main.py has read, row by row
    result           \* what the handler or the analysis has returned, <<>> before

vars == <<lr_numbers, max_concurrent, semaphore, pc, retry_count, json_frame,
          responses, results, phase, requests, slept, history, df, result>>

\* Tasks with one task per distinct LR number: the entries that repeat an
\* earlier one get none.
Tasks_Distinct ==
    {i \in 1..Len(lr_numbers) : \A j \in 1..(i - 1) : lr_numbers[j] # lr_numbers[i]}

\* Line 257: one task per entry of lr_numbers.
Tasks == 1..Len(lr_numbers)

Pending == [pending |-> TRUE]

\* What gather(return_exceptions=True) returns for a task that raised.
IsException(response) == "exception" \in DOMAIN response

\* Lines 245-257: the dictionary is empty, the semaphore full, one task per
\* entry of lr_numbers.
Start(lr_list, limit) ==
    /\ lr_numbers = lr_list
    /\ max_concurrent = limit
    /\ semaphore = limit
    /\ pc = [i \in 1..Len(lr_list) |-> "waiting"]
    /\ retry_count = [i \in 1..Len(lr_list) |-> 0]
    /\ json_frame = [i \in 1..Len(lr_list) |-> FALSE]
    /\ responses = [i \in 1..Len(lr_list) |-> Pending]
    /\ results = <<>>
    /\ phase = "gather"
    /\ requests = [i \in 1..Len(lr_list) |-> 0]
    /\ slept = [i \in 1..Len(lr_list) |-> <<>>]
    /\ history = [i \in 1..Len(lr_list) |-> <<>>]

\* track_multiple_lr_numbers called on its own: no handler, no DataFrame.
NoHandler == df = <<>> /\ result = <<>>

Init == NoHandler /\ \E l \in LrNumberLists, limit \in 1..MaxLrNumbers : Start(l, limit)

\* CanAcquire that keeps one token back: a semaphore of one token never
\* lets a task in.
CanAcquire_KeepsOneBack(value) == value > 1

\* CanAcquire without the limit.
CanAcquire_Unbounded(value) == TRUE

\* Line 251, asyncio.Semaphore.acquire: a token is free.
CanAcquire(value) == value > 0

\* Acquire with a sleep that holds up the event loop (time.sleep in the
\* place of asyncio.sleep): no task starts while another one sleeps.
Acquire_NotWhileSleeping(i) ==
    /\ phase = "gather"
    /\ pc[i] = "waiting"
    /\ \A k \in Tasks : pc[k] # "sleeping"
    /\ CanAcquire(semaphore)
    /\ semaphore' = semaphore - 1
    /\ pc' = [pc EXCEPT ![i] = "fetching"]
    /\ requests' = [requests EXCEPT ![i] = @ + 1]
    /\ UNCHANGED <<df, result, lr_numbers, max_concurrent, retry_count, json_frame, responses,
                   results, phase, slept, history>>

\* Lines 251-252 and 63: task i takes a token and sends its first POST.
Acquire(i) ==
    /\ phase = "gather"
    /\ pc[i] = "waiting"
    /\ CanAcquire(semaphore)
    /\ semaphore' = semaphore - 1
    /\ pc' = [pc EXCEPT ![i] = "fetching"]
    /\ requests' = [requests EXCEPT ![i] = @ + 1]
    /\ UNCHANGED <<df, result, lr_numbers, max_concurrent, retry_count, json_frame, responses,
                   results, phase, slept, history>>

\* Respond with the fetch storing its result in the dictionary itself.
Respond_WritesMapping(i, resp) ==
    /\ phase = "gather"
    /\ pc[i] = "fetching"
    /\ history' = [history EXCEPT ![i] = Append(@, resp)]
    /\ LET out == fetch_tracking_status(lr_numbers[i], retry_count[i], resp, Now)
       IN  IF out.act = "retry"
           THEN /\ pc' = [pc EXCEPT ![i] = "sleeping"]
                /\ slept' = [slept EXCEPT ![i] = Append(@, out.delay)]
                /\ json_frame' = [json_frame EXCEPT
                       ![i] = @ \/ resp.kind \in {"empty", "malformed"}]
                /\ UNCHANGED <<semaphore, responses, results>>
           ELSE /\ pc' = [pc EXCEPT
                       ![i] = IF out.act = "return" THEN "returned" ELSE "raised"]
                /\ responses' = [responses EXCEPT ![i] = out.result]
                /\ results' = (lr_numbers[i] :> out.result) @@ results
                /\ semaphore' = semaphore + 1
                /\ json_frame' = [json_frame EXCEPT ![i] = FALSE]
                /\ UNCHANGED slept
    /\ UNCHANGED <<df, result, lr_numbers, max_concurrent, retry_count, phase, requests>>

\* Respond with the token given back for the time of the backoff sleep.
Respond_ReleasesForSleep(i, resp) ==
    /\ phase = "gather"
    /\ pc[i] = "fetching"
    /\ history' = [history EXCEPT ![i] = Append(@, resp)]
    /\ LET out == fetch_tracking_status(lr_numbers[i], retry_count[i], resp, Now)
       IN  IF out.act = "retry"
           THEN /\ pc' = [pc EXCEPT ![i] = "sleeping"]
                /\ slept' = [slept EXCEPT ![i] = Append(@, out.delay)]
                /\ json_frame' = [json_frame EXCEPT
                       ![i] = @ \/ resp.kind \in {"empty", "malformed"}]
                /\ semaphore' = semaphore + 1
                /\ UNCHANGED responses
           ELSE /\ pc' = [pc EXCEPT
                       ![i] = IF out.act = "return" THEN "returned" ELSE "raised"]
                /\ responses' = [responses EXCEPT ![i] = out.result]
                /\ semaphore' = semaphore + 1
                /\ json_frame' = [json_frame EXCEPT ![i] = FALSE]
                /\ UNCHANGED slept
    /\ UNCHANGED <<df, result, lr_numbers, max_concurrent, retry_count, results, phase, requests>>

\* Lines 68-148: task i's POST meets resp; the fetch goes to sleep before a
\* retry, or it ends and line 251 gives the token back.
Respond(i, resp) ==
    /\ phase = "gather"
    /\ pc[i] = "fetching"
    /\ history' = [history EXCEPT ![i] = Append(@, resp)]
    /\ LET out == fetch_tracking_status(lr_numbers[i], retry_count[i], resp, Now)
       IN  IF out.act = "retry"
           THEN /\ pc' = [pc EXCEPT ![i] = "sleeping"]
                /\ slept' = [slept EXCEPT ![i] = Append(@, out.delay)]
                /\ json_frame' = [json_frame EXCEPT
                       ![i] = @ \/ resp.kind \in {"empty", "malformed"}]
                /\ UNCHANGED <<semaphore, responses>>
           ELSE /\ pc' = [pc EXCEPT
                       ![i] = IF out.act = "return" THEN "returned" ELSE "raised"]
                /\ responses' = [responses EXCEPT ![i] = out.result]
                /\ semaphore' = semaphore + 1
                /\ json_frame' = [json_frame EXCEPT ![i] = FALSE]
                /\ UNCHANGED slept
    /\ UNCHANGED <<df, result, lr_numbers, max_concurrent, retry_count, results, phase, requests>>

\* Wake with one retry counter for the whole batch: the retry of one fetch
\* counts against every fetch.
Wake_SharedCount(i) ==
    /\ phase = "gather"
    /\ pc[i] = "sleeping"
    /\ pc' = [pc EXCEPT ![i] = "fetching"]
    /\ retry_count' = [k \in DOMAIN retry_count |-> retry_count[k] + 1]
    /\ requests' = [requests EXCEPT ![i] = @ + 1]
    /\ UNCHANGED <<df, result, lr_numbers, max_concurrent, semaphore, json_frame, responses,
                   results, phase, slept, history>>

\* Lines 92-93, 122-123, 134-135: the sleep ends and the fetch calls itself
\* with retry_count + 1, which sends the next POST.
Wake(i) ==
    /\ phase = "gather"
    /\ pc[i] = "sleeping"
    /\ pc' = [pc EXCEPT ![i] = "fetching"]
    /\ retry_count' = [retry_count EXCEPT ![i] = @ + 1]
    /\ requests' = [requests EXCEPT ![i] = @ + 1]
    /\ UNCHANGED <<df, result, lr_numbers, max_concurrent, semaphore, json_frame, responses,
                   results, phase, slept, history>>

\* TaskFault with a semaphore that is released by hand after the fetch and
\* not by async with: the exception passes the release.
TaskFault_KeepsToken(i) ==
    /\ phase = "gather"
    /\ pc[i] = "fetching"
    /\ IF json_frame[i]
       THEN /\ pc' = [pc EXCEPT ![i] = "returned"]
            /\ responses' = [responses EXCEPT
                   ![i] = ErrorResult(lr_numbers[i], "ERROR", "RuntimeError: ")]
            /\ semaphore' = semaphore + 1
       ELSE /\ pc' = [pc EXCEPT ![i] = "raised"]
            /\ responses' = [responses EXCEPT ![i] = Raise("RuntimeError").result]
            /\ semaphore' = semaphore
    /\ json_frame' = [json_frame EXCEPT ![i] = FALSE]
    /\ UNCHANGED <<df, result, lr_numbers, max_concurrent, retry_count, results, phase,
                   requests, slept, history>>

\* An exception raised while an except clause of lines 118-148 runs leaves
\* that fetch.  A caller that waits at line 93 is inside its own try and
\* turns it into an "ERROR" result at line 142; callers that wait at line
\* 123 or 135 let it pass, and then the task ends with the exception.
TaskFault(i) ==
    /\ phase = "gather"
    /\ pc[i] = "fetching"
    /\ IF json_frame[i]
       THEN /\ pc' = [pc EXCEPT ![i] = "returned"]
            /\ responses' = [responses EXCEPT
                   ![i] = ErrorResult(lr_numbers[i], "ERROR", "RuntimeError: ")]
       ELSE /\ pc' = [pc EXCEPT ![i] = "raised"]
            /\ responses' = [responses EXCEPT ![i] = Raise("RuntimeError").result]
    /\ semaphore' = semaphore + 1
    /\ json_frame' = [json_frame EXCEPT ![i] = FALSE]
    /\ UNCHANGED <<df, result, lr_numbers, max_concurrent, retry_count, results, phase,
                   requests, slept, history>>

\* BuildResults with break in the place of continue at line 266: nothing
\* is stored once a response is an exception.
RECURSIVE BuildResults_BreakOnException(_, _)
BuildResults_BreakOnException(resps, n) ==
    IF n = 0 THEN <<>>
    ELSE LET before == BuildResults_BreakOnException(resps, n - 1)
             response == resps[n]
         IN  IF \E k \in 1..n : IsException(resps[k]) THEN before
             ELSE IF response.lr_number = "" THEN before
             ELSE (response.lr_number :> response) @@ before

\* BuildResults without the test of line 269: a falsy LR number is a key.
RECURSIVE BuildResults_NoKeyTest(_, _)
BuildResults_NoKeyTest(resps, n) ==
    IF n = 0 THEN <<>>
    ELSE LET before == BuildResults_NoKeyTest(resps, n - 1)
             response == resps[n]
         IN  IF IsException(response) THEN before
             ELSE (response.lr_number :> response) @@ before

\* Lines 263-270 on the first n responses: exceptions and falsy LR numbers
\* are skipped, a later response replaces an earlier one of the same key.
RECURSIVE BuildResults(_, _)
BuildResults(resps, n) ==
    IF n = 0 THEN <<>>
    ELSE LET before == BuildResults(resps, n - 1)
             response == resps[n]
         IN  IF IsException(response) THEN before
             ELSE IF response.lr_number = "" THEN before
             ELSE (response.lr_number :> response) @@ before

\* Lines 263-270: the order of the keys of the dictionary, which is the
\* order in which the loop stores them first; the loop goes through the
\* responses in the order of lr_numbers, as gather returns them.
RECURSIVE KeyOrder(_, _)
KeyOrder(resps, n) ==
    IF n = 0 THEN <<>>
    ELSE LET before == KeyOrder(resps, n - 1)
             response == resps[n]
         IN  IF IsException(response) THEN before
             ELSE IF response.lr_number = "" THEN before
             ELSE IF \E k \in 1..Len(before) : before[k] = response.lr_number THEN before
             ELSE Append(before, response.lr_number)

\* Line 260: gather(*tasks, return_exceptions=True) returns when every task
\* has ended, with a result or with an exception.
GatherDone == \A i \in Tasks : pc[i] \in {"returned", "raised"}

\* Lines 260-272: gather returns and the loop builds the dictionary.
Collect ==
    /\ phase = "gather"
    /\ GatherDone
    /\ results' = BuildResults(responses, Len(lr_numbers))
    /\ phase' = "done"
    /\ UNCHANGED <<df, result, lr_numbers, max_concurrent, semaphore, pc, retry_count, json_frame,
                   responses, requests, slept, history>>

\* A batch against the service.
Next ==
    \/ \E i \in Tasks : Acquire(i)
    \/ \E i \in Tasks, resp \in BatchResponses : Respond(i, resp)
    \/ \E i \in Tasks : Wake(i)
    \/ \E i \in Tasks : TaskFault(i)
    \/ Collect

Spec == Init /\ [][Next]_vars

\* A batch whose service either lets a request time out or answers it with
\* the Delivered payload: what a fetch does next (sleep and retry, or end)
\* depends on nothing else of the response.
LiveResponses ==
    {Response("timeout", 0, JNull), Response("json", 200, Payload_Delivered)}

LiveInit ==
    NoHandler /\ \E l \in {q \in LrNumberLists : \A i \in 1..Len(q) : q[i] # ""},
       limit \in 1..MaxLrNumbers : Start(l, limit)

LiveNext ==
    \/ \E i \in Tasks : Acquire(i)
    \/ \E i \in Tasks, resp \in LiveResponses : Respond(i, resp)
    \/ \E i \in Tasks : Wake(i)
    \/ \E i \in Tasks : TaskFault(i)
    \/ Collect

\* A fair event loop and a service that answers: a task that can take a free
\* token takes it (line 251), every POST meets a response, a transport error
\* or a timeout (the 30 s ClientTimeout of line 68 ends a request the service
\* never answers), every asyncio.sleep ends, and gather returns once every
\* task has ended.  No fairness for TaskFault: nothing obliges an except
\* clause to fail.
Fairness ==
    /\ \A i \in 1..MaxLrNumbers : WF_vars(i \in Tasks /\ Acquire(i))
    /\ \A i \in 1..MaxLrNumbers :
           WF_vars(i \in Tasks /\ \E resp \in LiveResponses : Respond(i, resp))
    /\ \A i \in 1..MaxLrNumbers : WF_vars(i \in Tasks /\ Wake(i))
    /\ WF_vars(Collect)

LiveSpec == LiveInit /\ [][LiveNext]_vars /\ Fairness

\* A batch of one LR number, the service giving every kind of response.
FetchInit == NoHandler /\ \E lr \in LrNumbers : Start(<<lr>>, 1)

FetchNext ==
    \/ \E i \in Tasks : Acquire(i)
    \/ \E i \in Tasks, resp \in ServerResponses : Respond(i, resp)
    \/ \E i \in Tasks : Wake(i)
    \/ \E i \in Tasks : TaskFault(i)
    \/ Collect

FetchSpec == FetchInit /\ [][FetchNext]_vars

\* One fetch whose POST is answered with a decoded payload: line 85 hands
\* every payload to parse_tracking_response.
ParseInit == NoHandler /\ \E lr \in LrNumbers : Start(<<lr>>, 1)

ParseNext ==
    \/ \E i \in Tasks : Acquire(i)
    \/ \E i \in Tasks, resp \in ParseResponses : Respond(i, resp)
    \/ Collect

ParseSpec == ParseInit /\ [][ParseNext]_vars

\* One fetch whose payload holds one status text: line 197 hands every
\* text to normalize_status.
NormalizeInit == NoHandler /\ Start(<<"LR-A">>, 1)

NormalizeNext ==
    \/ \E i \in Tasks : Acquire(i)
    \/ \E i \in Tasks, resp \in NormalizeResponses : Respond(i, resp)
    \/ Collect

NormalizeSpec == NormalizeInit /\ [][NormalizeNext]_vars

\* One fetch whose POST times out, is answered with text that is no JSON,
\* or is answered with JSON of an unexpected shape.
ShapeInit == NoHandler /\ \E lr \in LrNumbers : Start(<<lr>>, 1)

ShapeNext ==
    \/ \E i \in Tasks : Acquire(i)
    \/ \E i \in Tasks, resp \in ShapeResponses : Respond(i, resp)
    \/ \E i \in Tasks : Wake(i)
    \/ Collect

ShapeSpec == ShapeInit /\ [][ShapeNext]_vars

\* normalize_status applied to its own result: the first fetch is answered
\* with a status text, and the second with the text the first one returned
\* as its status.
Renormalize(i, j) ==
    /\ pc[i] = "returned"
    /\ \E text \in ReturnedTexts(StatusTextOf(history[i][Len(history[i])].body)) :
           /\ Join(text) = responses[i].status
           /\ Respond(j, Response("json", 200, StatusPayload(text)))

RenormalizeInit == NoHandler /\ Start(<<"LR-A", "LR-A">>, 1)

RenormalizeNext ==
    \/ Acquire(1)
    \/ \E text \in RenormalizeTexts : Respond(1, Response("json", 200, StatusPayload(text)))
    \/ pc[1] = "returned" /\ Acquire(2)
    \/ Renormalize(1, 2)
    \/ Collect

RenormalizeSpec == RenormalizeInit /\ [][RenormalizeNext]_vars

\* ------------------------------------- main.py: /process, /process-base64

\* A cell pandas has read as missing, in a column of texts, and the same in
\* the LrNumber column, whose cells are sequences of characters.
NaN == "<NaN>"
Cell_NaN == <<NaN>>

\* Series.astype(str) on one cell: a missing cell becomes the text nan.
astype_str(cell) == IF cell = Cell_NaN THEN <<"n", "a", "n">> ELSE cell
astype_str_text(cell) == IF cell = NaN THEN "nan" ELSE cell

\* Lines 220, 350: df['Delivery Format'].isna()
missing_delivery_mask(frame) == [r \in DOMAIN frame |-> frame[r].DeliveryFormat = NaN]

\* Lines 221, 351: the LrNumber of the rows of the mask, as text, in row order.
RECURSIVE all_lr_numbers(_)
all_lr_numbers(frame) ==
    IF frame = <<>> THEN <<>>
    ELSE LET rest == all_lr_numbers(SubSeq(frame, 1, Len(frame) - 1))
             row == frame[Len(frame)]
         IN  IF row.DeliveryFormat = NaN THEN Append(rest, astype_str(row.LrNumber))
             ELSE rest

\* valid_lr_numbers with <= in the place of == at lines 224, 354.
valid_lr_numbers_AtMost(frame) ==
    SelectSeq(all_lr_numbers(frame), LAMBDA lr : Len(lr) <= LR_NUMBER_LENGTH)

\* Lines 224-225, 354-355: the two lists by length.
valid_lr_numbers(frame) ==
    SelectSeq(all_lr_numbers(frame), LAMBDA lr : Len(lr) = LR_NUMBER_LENGTH)
invalid_lr_numbers(frame) ==
    SelectSeq(all_lr_numbers(frame), LAMBDA lr : Len(lr) # LR_NUMBER_LENGTH)

\* The list as track_multiple_lr_numbers gets it.
Texts(list) == [k \in 1..Len(list) |-> Join(list[k])]

\* Lines 243, 373: the rows whose LrNumber, as text, is lr_number, of the
\* rows of the mask taken at line 220.
lr_mask(frame, mask, lr_number) ==
    {r \in DOMAIN frame : Join(astype_str(frame[r].LrNumber)) = lr_number /\ mask[r]}

\* UpdateRows without "& missing_delivery_mask" at lines 243, 373.
RECURSIVE UpdateRows_AnyDeliveryFormat(_, _, _, _)
UpdateRows_AnyDeliveryFormat(frame, mask, keys, tracking_results) ==
    IF keys = <<>> THEN [df |-> frame, statuses_updated |-> 0]
    ELSE LET before == UpdateRows_AnyDeliveryFormat(frame, mask,
                           SubSeq(keys, 1, Len(keys) - 1), tracking_results)
             lr_number == keys[Len(keys)]
             status == tracking_results[lr_number].status
             rows == lr_mask(frame, [r \in DOMAIN frame |-> TRUE], lr_number)
         IN  IF rows = {} THEN before
             ELSE [df |-> [r \in DOMAIN frame |->
                              IF r \in rows
                              THEN [before.df[r] EXCEPT !.CurrentStatus = status,
                                                        !.DeliveryFormat = "done"]
                              ELSE [before.df[r] EXCEPT
                                        !.DeliveryFormat = astype_str_text(@)]],
                   statuses_updated |-> before.statuses_updated + 1]

\* Lines 238-250, 368-380: the loop over tracking_results.items(), keys
\* being the keys in the order of the dictionary.  A key with rows writes
\* its status and 'done' to them and turns the whole Delivery Format
\* column into text.
RECURSIVE UpdateRows(_, _, _, _)
UpdateRows(frame, mask, keys, tracking_results) ==
    IF keys = <<>> THEN [df |-> frame, statuses_updated |-> 0]
    ELSE LET before == UpdateRows(frame, mask, SubSeq(keys, 1, Len(keys) - 1),
                                  tracking_results)
             lr_number == keys[Len(keys)]
             status == tracking_results[lr_number].status
             rows == lr_mask(frame, mask, lr_number)
         IN  IF rows = {} THEN before
             ELSE [df |-> [r \in DOMAIN frame |->
                              IF r \in rows
                              THEN [before.df[r] EXCEPT !.CurrentStatus = status,
                                                        !.DeliveryFormat = "done"]
                              ELSE [before.df[r] EXCEPT
                                        !.DeliveryFormat = astype_str_text(@)]],
                   statuses_updated |-> before.statuses_updated + 1]

\* Lines 280-289: the fields of LRNumbersResponse the lists and the update
\* decide.
LRNumbersResponse(frame, statuses_updated, output_file) ==
    [total_records |-> Len(frame),
     na_count |-> Len(all_lr_numbers(frame)),
     valid_lr_numbers |-> valid_lr_numbers(frame),
     invalid_lr_numbers |-> invalid_lr_numbers(frame),
     statuses_updated |-> statuses_updated,
     output_file |-> output_file]

\* The workbooks: LR numbers of 12 characters, of 11, of 13 and a missing
\* one; Delivery Format missing or filled; Current Status missing or filled.
Lr_A == <<"1","0","0","0","0","0","0","0","0","0","0","A">>
Lr_B == <<"1","0","0","0","0","0","0","0","0","0","0","B">>
Lr_Short == <<"1","0","0","0","0","0","0","0","0","0","A">>
Lr_Long == <<"1","0","0","0","0","0","0","0","0","0","0","A","0">>
LrCells == {Lr_A, Lr_B, Lr_Short, Lr_Long, Cell_NaN}
Rows ==
    [LrNumber : LrCells, DeliveryFormat : {NaN, "POD"}, CurrentStatus : {NaN, "Booked"}]
Workbooks == SeqsUpTo(Rows, MaxRows)

\* What the service answers to the handler's batch: a status, a failure
\* reported in the payload, a failure reported by the HTTP status.
HandlerResponses ==
    {Response("json", 200, Payload_Delivered),
     Response("json", 200, Payload_NotOk),
     Response("http", 500, JNull)}

\* Line 229, 359: without valid LR numbers the tracker is not called.
NotCalled ==
    /\ lr_numbers = <<>>
    /\ max_concurrent = MAX_CONCURRENT_REQUESTS
    /\ semaphore = MAX_CONCURRENT_REQUESTS
    /\ pc = <<>>
    /\ retry_count = <<>>
    /\ json_frame = <<>>
    /\ responses = <<>>
    /\ results = <<>>
    /\ phase = "not called"
    /\ requests = <<>>
    /\ slept = <<>>
    /\ history = <<>>

\* Lines 216-235, 346-365: the workbook is read, the lists are built and
\* the valid LR numbers go to track_multiple_lr_numbers.
HandlerInit ==
    \E workbook \in Workbooks :
        /\ df = workbook
        /\ result = <<>>
        /\ IF valid_lr_numbers(workbook) = <<>>
           THEN NotCalled
           ELSE Start(Texts(valid_lr_numbers(workbook)), MAX_CONCURRENT_REQUESTS)

\* Lines 236-258 and 280-289: the tracker has returned; the rows are
\* updated, the workbook is saved and the handler returns.
UpdateWorkbook ==
    /\ phase = "done"
    /\ result = <<>>
    /\ LET updated == UpdateRows(df, missing_delivery_mask(df),
                                 KeyOrder(responses, Len(lr_numbers)), results)
       IN  /\ df' = updated.df
           /\ result' = <<LRNumbersResponse(df, updated.statuses_updated, "saved")>>
    /\ UNCHANGED <<lr_numbers, max_concurrent, semaphore, pc, retry_count, json_frame,
                   responses, results, phase, requests, slept, history>>

\* Lines 259-261 and 280-289: nothing to track, nothing is written.
ReturnUntracked ==
    /\ phase = "not called"
    /\ result = <<>>
    /\ result' = <<LRNumbersResponse(df, 0, None)>>
    /\ UNCHANGED <<lr_numbers, max_concurrent, semaphore, pc, retry_count, json_frame,
                   responses, results, phase, requests, slept, history, df>>

HandlerNext ==
    \/ \E i \in Tasks : Acquire(i)
    \/ \E i \in Tasks, resp \in HandlerResponses : Respond(i, resp)
    \/ \E i \in Tasks : TaskFault(i)
    \/ Collect
    \/ UpdateWorkbook
    \/ ReturnUntracked

HandlerSpec == HandlerInit /\ [][HandlerNext]_vars

\* ------------------------------------------------------- delay_analyzer.py

\* A cell of the delay column: missing, a number or a text.  A number is
\* kept in halves of a day, so that 1.5 days is 3.
Delay_NaN == [kind |-> "nan", halves |-> 0, text |-> <<>>]
Number(halves) == [kind |-> "number", halves |-> halves, text |-> <<>>]
Text(chars) == [kind |-> "text", halves |-> 0, text |-> chars]

\* float(text) and pd.to_numeric on a text: blanks around it are dropped,
\* then a sign, digits and a fraction of .0 or .5 make a number; no other
\* text of the workbooks does.
NoNumber == [ok |-> FALSE, halves |-> 0]
AllDigits(s) == s # <<>> /\ \A k \in 1..Len(s) : IsDigit(s[k])
ParseUnsigned(s) ==
    IF AllDigits(s) THEN [ok |-> TRUE, halves |-> 2 * IntOf(s)]
    ELSE IF /\ Len(s) >= 3
            /\ s[Len(s) - 1] = "."
            /\ s[Len(s)] \in {"0", "5"}
            /\ AllDigits(SubSeq(s, 1, Len(s) - 2))
         THEN [ok |-> TRUE,
               halves |-> 2 * IntOf(SubSeq(s, 1, Len(s) - 2))
                              + (IF s[Len(s)] = "5" THEN 1 ELSE 0)]
         ELSE NoNumber
ParseFloat(chars) ==
    LET s == str_strip(chars)
    IN  IF s # <<>> /\ s[1] = "-"
        THEN LET u == ParseUnsigned(Tail(s))
             IN  IF u.ok THEN [ok |-> TRUE, halves |-> 0 - u.halves] ELSE NoNumber
        ELSE IF s # <<>> /\ s[1] = "+" THEN ParseUnsigned(Tail(s))
        ELSE ParseUnsigned(s)

\* Lines 89-119.  Days are compared in halves: 1 day is 2.
categorize_delay(delay_value) ==
    IF delay_value.kind = "nan" THEN None
    ELSE LET parsed == IF delay_value.kind = "number"
                       THEN [ok |-> TRUE, halves |-> delay_value.halves]
                       ELSE ParseFloat(delay_value.text)
             delay_num == parsed.halves
         IN  IF ~parsed.ok THEN None
             ELSE IF delay_num <= 0 THEN None
             ELSE IF delay_num = 2 THEN "delay_by_1_day"
             ELSE IF delay_num = 4 THEN "delay_by_2_days"
             ELSE IF delay_num = 6 THEN "delay_by_3_days"
             ELSE IF delay_num = 8 THEN "delay_by_4_days"
             ELSE "delay_by_5_plus_days"

\* Line 134: pd.to_numeric(errors='coerce') on one cell.
to_numeric(cell) ==
    IF cell.kind = "text"
    THEN LET parsed == ParseFloat(cell.text)
         IN  IF parsed.ok THEN Number(parsed.halves) ELSE Delay_NaN
    ELSE cell

\* Lines 122-135.
clean_delay_column(frame) ==
    [r \in DOMAIN frame |-> [frame[r] EXCEPT !.delay = to_numeric(@)]]

\* Lines 38-46 and 281-287.
PREDEFINED_STATUSES ==
    <<"In transit", "CCF - HOLD", "Out for Delivery", "Delay due to road conditions",
      "LOST", "Service issue - Leh", "Attempted Short - Refused">>
delay_columns ==
    <<"delay_by_1_day", "delay_by_2_days", "delay_by_3_days", "delay_by_4_days",
      "delay_by_5_plus_days">>

\* An Optional[int] of the result: None is <<>>, a count n is <<n>>.
NoCount == <<>>
CountOf(x) == IF x = NoCount THEN 0 ELSE x[1]

\* Lines 203-206: the rows of status_df of one category, None for none.
category_count(status_df, delay_cat) ==
    LET count == Len(SelectSeq(status_df, LAMBDA row : row.delay_category = delay_cat))
    IN  IF count > 0 THEN <<count>> ELSE NoCount

\* Lines 181-208, with the status of line 299.
process_status_delays(status_df, status) ==
    LET counts == [k \in 1..Len(delay_columns) |-> category_count(status_df, delay_columns[k])]
    IN  [status |-> status,
         delay_by_1_day |-> counts[1],
         delay_by_2_days |-> counts[2],
         delay_by_3_days |-> counts[3],
         delay_by_4_days |-> counts[4],
         delay_by_5_plus_days |-> counts[5],
         grand_total |-> CountOf(counts[1]) + CountOf(counts[2]) + CountOf(counts[3])
                             + CountOf(counts[4]) + CountOf(counts[5])]

\* The status texts of the workbooks in the order sorted() gives them.
StatusOrder == <<"At origin", "Held at hub", "In transit", "LOST">>
sorted(statuses) == SelectSeq(StatusOrder, LAMBDA status : status \in statuses)

\* Lines 269-278: the predefined statuses, then the other statuses of the
\* whole workbook, missing ones dropped, in sorted order.
all_statuses(frame) ==
    LET data_statuses == {frame[r].status : r \in DOMAIN frame} \ {NaN}
    IN  PREDEFINED_STATUSES \o
            SelectSeq(sorted(data_statuses),
                      LAMBDA status : \A k \in DOMAIN PREDEFINED_STATUSES :
                                          PREDEFINED_STATUSES[k] # status)

\* Lines 290-308: the totals the loop over the statuses has added up, in
\* plain numbers.
RECURSIVE totals_of(_)
totals_of(result_data) ==
    IF result_data = <<>>
    THEN [delay_by_1_day |-> 0, delay_by_2_days |-> 0, delay_by_3_days |-> 0,
          delay_by_4_days |-> 0, delay_by_5_plus_days |-> 0, grand_total |-> 0]
    ELSE LET totals == totals_of(SubSeq(result_data, 1, Len(result_data) - 1))
             row_data == result_data[Len(result_data)]
         IN  [delay_by_1_day |-> totals.delay_by_1_day + CountOf(row_data.delay_by_1_day),
              delay_by_2_days |-> totals.delay_by_2_days + CountOf(row_data.delay_by_2_days),
              delay_by_3_days |-> totals.delay_by_3_days + CountOf(row_data.delay_by_3_days),
              delay_by_4_days |-> totals.delay_by_4_days + CountOf(row_data.delay_by_4_days),
              delay_by_5_plus_days |->
                  totals.delay_by_5_plus_days + CountOf(row_data.delay_by_5_plus_days),
              grand_total |-> totals.grand_total + row_data.grand_total]

\* Lines 311-313 and 327-330: a total of 0 becomes None, the grand total
\* stays a number.
totals_row(totals) ==
    LET shown(n) == IF n = 0 THEN NoCount ELSE <<n>>
    IN  [status |-> "Grand Total",
         delay_by_1_day |-> shown(totals.delay_by_1_day),
         delay_by_2_days |-> shown(totals.delay_by_2_days),
         delay_by_3_days |-> shown(totals.delay_by_3_days),
         delay_by_4_days |-> shown(totals.delay_by_4_days),
         delay_by_5_plus_days |-> shown(totals.delay_by_5_plus_days),
         grand_total |-> totals.grand_total]

\* Lines 232-235: the workbook with the delay column cleaned and the
\* delay_category column added.
categorized(frame) ==
    LET cleaned == clean_delay_column(frame)
    IN  [r \in DOMAIN frame |->
            [status |-> cleaned[r].status,
             delay |-> cleaned[r].delay,
             delay_category |-> categorize_delay(cleaned[r].delay)]]

\* Lines 211-333, without the headers, which are always the same.
analyze_delays(frame) ==
    LET table == categorized(frame)
        df_delayed == SelectSeq(table, LAMBDA row : row.delay_category # None)
    IN  IF Len(df_delayed) = 0
        THEN [data |-> <<>>, totals |-> totals_row(totals_of(<<>>))]
        ELSE LET statuses == all_statuses(table)
                 result_data ==
                     [k \in 1..Len(statuses) |->
                         process_status_delays(
                             SelectSeq(df_delayed, LAMBDA row : row.status = statuses[k]),
                             statuses[k])]
             IN  [data |-> result_data, totals |-> totals_row(totals_of(result_data))]

\* The workbooks of the analysis: a status of the predefined list, two
\* others or none; a delay that is missing, a number of days, whole or not,
\* or a text.
StatusCells == {"In transit", "Held at hub", "At origin", NaN}
DelayNumbers == {Number(h) : h \in {-2, 0, 1, 2, 3, 4, 6, 8, 10, 12}}
DelayTexts == {Text(<<"a", "b", "c">>), Text(<<"2">>)}
DelayCells == {Delay_NaN} \cup DelayNumbers \cup DelayTexts
DelayRows == [status : StatusCells, delay : DelayCells]
DelayWorkbooks == SeqsUpTo(DelayRows, MaxRows)

\* What categorize_delay is given when it is called by itself.
DelayValues ==
    DelayCells \cup {Text(<<"-", "1">>), Text(<<"1", ".", "5">>), Text(<<"4", ".", "0">>),
                     Text(<<" ", "7", " ">>), Text(<<>>), Text(<<"2", " ", "d">>)}

\* main.py 453 and 614: the workbook is read.
DelayInit ==
    /\ NotCalled
    /\ df \in DelayWorkbooks
    /\ result = <<>>

\* main.py 463 and 624: result = analyze_delays(df), which also cleans and
\* extends the caller's DataFrame.
AnalyzeDelays ==
    /\ result = <<>>
    /\ result' = <<analyze_delays(df)>>
    /\ df' = categorized(df)
    /\ UNCHANGED <<lr_numbers, max_concurrent, semaphore, pc, retry_count, json_frame,
                   responses, results, phase, requests, slept, history>>

\* categorize_delay called on one value.
CategorizeDelay(delay_value) ==
    /\ result = <<>>
    /\ result' = <<[delay_value |-> delay_value, category |-> categorize_delay(delay_value)]>>
    /\ UNCHANGED <<lr_numbers, max_concurrent, semaphore, pc, retry_count, json_frame,
                   responses, results, phase, requests, slept, history, df>>

DelayNext ==
    \/ AnalyzeDelays
    \/ \E delay_value \in DelayValues : CategorizeDelay(delay_value)

DelaySpec == DelayInit /\ [][DelayNext]_vars

\* ------------------------------------------------------------- properties

\* Task i's last POST has been answered and the fetch has dealt with the answer.
Answered(i) == requests[i] > 0 /\ Len(history[i]) = requests[i]

Front(h) == SubSeq(h, 1, Len(h) - 1)
Last(h) == h[Len(h)]

\* The failure classes the retry policy names.
RetriedKinds == {"empty", "malformed", "timeout", "client_error"}
AllRetried(h) == \A n \in 1..Len(h) : h[n].kind \in RetriedKinds
KindsOf(h) == {h[n].kind : n \in 1..Len(h)}

InFlight == {i \in Tasks : pc[i] \in {"fetching", "sleeping"}}

\* The result of the entry DELIVERED, 2024-06-10 09:30:00, Surface.
DeliveredResult(lr) ==
    [lr_number |-> lr, status |-> "Delivered", track_date |-> "2024-06-10 09:30:00",
     mode |-> "Surface", error |-> None]

\* C1: when trackAll has returned, the keys of the mapping are exactly the
\* requested LR numbers.
C1_KeysAreTheRequested ==
    phase = "done" => DOMAIN results = {lr_numbers[i] : i \in Tasks}

\* C2: when trackAll has returned, every task that ended by raising has an
\* entry under its LR number, with status "ERROR".
C2_RaisedTaskHasErrorEntry ==
    phase = "done" =>
        \A i \in Tasks :
            pc[i] = "raised" =>
                /\ lr_numbers[i] \in DOMAIN results
                /\ results[lr_numbers[i]].status = "ERROR"

\* C3: the fetches in flight, those that hold a token of the semaphore, are
\* never more than max_concurrent.
C3_InFlightAtMostMaxConcurrent == Cardinality(InFlight) <= max_concurrent

\* C3: max_concurrent fetches are in flight and another task waits.
C3_Witness ==
    /\ Cardinality(InFlight) = max_concurrent
    /\ \E i \in Tasks : pc[i] = "waiting"
    /\ \E i \in Tasks : pc[i] = "sleeping"

\* A response that is no parsed status entry.
IsFailure(resp) ==
    resp.kind # "json" \/ resp.body \notin {Payload_Delivered, Payload_Stale}

\* C4: whatever the service answers, the fetch sleeps before a retry or
\* returns a result for its LR number; it never ends with an exception, and
\* the result of a failure has status "ERROR" or "NOT FOUND".
C4_FetchReturnsAResult ==
    \A i \in Tasks :
        Answered(i) =>
            /\ pc[i] \in {"sleeping", "returned"}
            /\ pc[i] = "returned" =>
                   /\ ~IsException(responses[i])
                   /\ responses[i].lr_number = lr_numbers[i]
                   /\ IsFailure(Last(history[i])) =>
                          responses[i].status \in {"ERROR", "NOT FOUND"}

\* C4: after two retries an unexpected exception became an "ERROR" result.
C4_Witness ==
    \E i \in Tasks :
        /\ Answered(i) /\ pc[i] = "returned"
        /\ Len(history[i]) = 3
        /\ Last(history[i]).kind = "unexpected"
        /\ responses[i].status = "ERROR"

\* C5: a fetch sends at most 1 + MAX_RETRIES requests and sleeps at most
\* MAX_RETRIES times, and every failure before the request in flight has
\* been counted, whatever its class.
C5_AtMostMaxRetriesRetries ==
    \A i \in Tasks :
        /\ requests[i] <= 1 + MAX_RETRIES
        /\ Len(slept[i]) <= MAX_RETRIES
        /\ pc[i] = "fetching" => retry_count[i] = Len(history[i])

\* C5: a fetch ended after 1 + MAX_RETRIES requests that met failures of
\* three classes.
C5_Witness ==
    \E i \in Tasks :
        /\ pc[i] = "returned"
        /\ requests[i] = 1 + MAX_RETRIES
        /\ AllRetried(history[i])
        /\ Cardinality(KindsOf(history[i])) >= 3

C7_ExponentialBackoff ==
    \A i \in Tasks :
        /\ \A n \in 1..Len(slept[i]) :
               slept[i][n] = RETRY_DELAY * RETRY_BACKOFF_FACTOR ^ (n - 1)
        /\ slept[i] = SubSeq(<<1, 2, 4>>, 1, Len(slept[i]))
        /\ \A n \in 2..Len(slept[i]) : slept[i][n] > slept[i][n - 1]

\* C7: a fetch slept 1, 2 and 4 seconds after failures of three classes.
C7_Witness ==
    \E i \in Tasks :
        /\ slept[i] = <<1, 2, 4>>
        /\ Len(history[i]) = 3
        /\ Cardinality(KindsOf(history[i])) = 3

\* A status that is not 200, or a payload that reports a failure or holds
\* no tracking data.
IsTerminalFailure(resp) ==
    \/ resp.kind = "http"
    \/ resp.kind = "json" /\ resp.body \in {Payload_NotOk, Payload_NoTracking}

\* C8: a terminal failure is the last response of its fetch: the fetch has
\* returned "ERROR" (HTTP status) or "NOT FOUND" (application failure), has
\* sent no request and slept no backoff after it.
C8_TerminalFailureNotRetried ==
    \A i \in Tasks :
        \A n \in 1..Len(history[i]) :
            IsTerminalFailure(history[i][n]) =>
                /\ n = Len(history[i])
                /\ requests[i] = n
                /\ Len(slept[i]) = n - 1
                /\ pc[i] = "returned"
                /\ responses[i].status =
                       IF history[i][n].kind = "http" THEN "ERROR" ELSE "NOT FOUND"

\* C8: the third request of a fetch met HTTP 500 and the fetch returned.
C8_Witness ==
    \E i \in Tasks :
        /\ Len(history[i]) = 3
        /\ Last(history[i]) = Response("http", 500, JNull)
        /\ pc[i] = "returned"
        /\ responses[i] = ErrorResult(lr_numbers[i], "ERROR", "HTTP 500")

\* The error text of each retried failure class once the retries are used up.
ExhaustedError(kind) ==
    CASE kind = "timeout" -> "API Timeout (after retries)"
      [] kind = "client_error" -> "HTTP Error: ClientConnectorError (after retries)"
      [] kind = "empty" -> "JSON parse error after retries: ValueError"
      [] kind = "malformed" -> "JSON parse error after retries: JSONDecodeError"

\* C9: a fetch that has used up its retries has returned "ERROR" with the
\* error text of the failure of its last attempt.
C9_ExhaustedErrorIsTheLastFailure ==
    \A i \in Tasks :
        Answered(i) /\ Len(history[i]) = MAX_RETRIES + 1 /\ AllRetried(history[i]) =>
            /\ pc[i] = "returned"
            /\ responses[i].status = "ERROR"
            /\ responses[i].error = ExhaustedError(Last(history[i]).kind)

\* C9: the retries were used up by a timeout first and a malformed body last.
C9_Witness ==
    \E i \in Tasks :
        /\ Answered(i) /\ Len(history[i]) = MAX_RETRIES + 1
        /\ history[i][1].kind = "timeout"
        /\ Last(history[i]).kind = "malformed"
        /\ responses[i].error = "JSON parse error after retries: JSONDecodeError"

\* What task j's own responses make of its fetch.
OwnResult(j) ==
    LET last == Last(history[j])
    IN  CASE last.kind = "timeout" ->
                 ErrorResult(lr_numbers[j], "ERROR", "API Timeout (after retries)")
          [] last.body = Payload_Delivered -> DeliveredResult(lr_numbers[j])
          [] last.body = Payload_NotOk ->
                 ErrorResult(lr_numbers[j], "NOT FOUND", "No data found")

\* The last task of the list that asked for lr and returned.
LastReturned(lr) ==
    CHOOSE k \in Tasks :
        /\ lr_numbers[k] = lr /\ pc[k] = "returned"
        /\ \A m \in Tasks : lr_numbers[m] = lr /\ pc[m] = "returned" => m <= k

\* C10: trackAll returns only when every task has ended; a fetch that was
\* answered returns what its own responses make of it, whatever happened to
\* the other tasks; and the result of every LR number that returned one is
\* in the mapping.
C10_SiblingsRunToTheirOwnOutcome ==
    \A j \in Tasks :
        /\ phase = "done" => pc[j] \in {"returned", "raised"}
        /\ pc[j] = "returned" /\ Answered(j) => responses[j] = OwnResult(j)
        /\ phase = "done" /\ pc[j] = "returned" /\ lr_numbers[j] # "" =>
               /\ lr_numbers[j] \in DOMAIN results
               /\ results[lr_numbers[j]] = responses[LastReturned(lr_numbers[j])]

\* C10: one task ended with an exception, and the other LR number's result
\* is in the mapping.
C10_Witness ==
    /\ phase = "done"
    /\ \E i, j \in Tasks :
           /\ pc[i] = "raised"
           /\ pc[j] = "returned"
           /\ lr_numbers[i] # lr_numbers[j]
           /\ lr_numbers[j] \in DOMAIN results
           /\ results[lr_numbers[j]] = DeliveredResult(lr_numbers[j])

\* Task i's fetch has returned what parse_tracking_response made of the
\* payload Body(i).
Parsed(i) == pc[i] = "returned" /\ Answered(i) /\ Last(history[i]).kind = "json"
Body(i) == Last(history[i]).body

Has(d, key) == d.t = "obj" /\ key \in DOMAIN d.v
StatusIsOk(data) == Has(data, "status") /\ data.v["status"] = JStr(Chars_Ok)

\* C11: a payload whose top-level status is not "Ok" gives "NOT FOUND" with
\* an error that is not null: the payload's message, or the generic message
\* when it has none, whatever message and data hold.
C11_NotOkIsNotFoundWithError ==
    \A i \in Tasks :
        Parsed(i) /\ Body(i).t = "obj" /\ ~StatusIsOk(Body(i)) =>
            /\ responses[i].status = "NOT FOUND"
            /\ responses[i].error # None
            /\ ~Has(Body(i), "message") => responses[i].error = "Invalid API response"

\* The value is missing from a payload: null or empty.
IsEmptyValue(x) == x \in {JNull, JArr(<<>>), JStr(<<>>), JObj(<<>>)}

\* The payload has no tracking record: data is missing, or a dict whose
\* tracking is missing, null or empty.
NoTrackingCollection(data) ==
    \/ ~Has(data, "data")
    \/ /\ data.v["data"].t = "obj"
       /\ ~Has(data.v["data"], "tracking") \/ IsEmptyValue(data.v["data"].v["tracking"])

\* C12: a payload with status "Ok" whose tracking collection is absent or
\* empty, the data field missing or empty included, gives "NOT FOUND" with
\* the error "No tracking data".
C12_NoTrackingIsNotFound ==
    \A i \in Tasks :
        Parsed(i) /\ StatusIsOk(Body(i)) /\ NoTrackingCollection(Body(i)) =>
            responses[i] = [lr_number |-> lr_numbers[i], status |-> "NOT FOUND",
                            error |-> "No tracking data"]

\* C12: payloads without data, with an empty data and with an empty
\* tracking list have each given "No tracking data".
C12_Witness ==
    \E i \in Tasks :
        /\ Parsed(i) /\ StatusIsOk(Body(i))
        /\ ~Has(Body(i), "data")
        /\ responses[i].error = "No tracking data"

\* The tracking records of a payload that has some.
HasTracking(data) ==
    /\ StatusIsOk(data) /\ Has(data, "data") /\ Has(data.v["data"], "tracking")
    /\ data.v["data"].v["tracking"].t = "arr"
    /\ data.v["data"].v["tracking"].v # <<>>
Tracking(data) == data.v["data"].v["tracking"].v

\* The first record has no status entry: the list is missing, null or empty.
NoStatusEntries(record) ==
    record.t = "obj" /\ (~Has(record, "status") \/ IsEmptyValue(record.v["status"]))

\* C13: a payload with status "Ok" whose first tracking record has no status
\* entry gives "NOT FOUND" with the error "No status information", also
\* when a later record has entries.
C13_NoStatusIsNotFound ==
    \A i \in Tasks :
        Parsed(i) /\ HasTracking(Body(i)) /\ NoStatusEntries(Tracking(Body(i))[1]) =>
            responses[i] = [lr_number |-> lr_numbers[i], status |-> "NOT FOUND",
                            error |-> "No status information"]

\* C13: the first record had an empty status list, the second had entries.
C13_Witness ==
    \E i \in Tasks :
        /\ Parsed(i) /\ HasTracking(Body(i))
        /\ Len(Tracking(Body(i))) = 2
        /\ Tracking(Body(i))[1] = TrackingRecord(<<>>)
        /\ ~NoStatusEntries(Tracking(Body(i))[2])
        /\ responses[i].error = "No status information"

\* The payload passes validation: its first tracking record has status
\* entries and the last of them is a dict.
Validated(data) ==
    /\ HasTracking(data)
    /\ Has(Tracking(data)[1], "status")
    /\ Tracking(data)[1].v["status"].t = "arr"
    /\ Tracking(data)[1].v["status"].v # <<>>
    /\ Tracking(data)[1].v["status"].v[Len(Tracking(data)[1].v["status"].v)].t = "obj"
StatusEntries(data) == Tracking(data)[1].v["status"].v
LastEntry(data) == StatusEntries(data)[Len(StatusEntries(data))]

\* The text of a field of an entry, empty when the field is missing or null,
\* and the field as the result holds it.
EntryText(entry, key) ==
    IF Has(entry, key) /\ entry.v[key].t = "str" THEN entry.v[key].v ELSE <<>>
EntryField(entry, key) ==
    IF ~Has(entry, key) THEN ""
    ELSE IF entry.v[key] = JNull THEN None
    ELSE Join(entry.v[key].v)

\* C14: for a payload that passes validation the result is made of the last
\* entry of the first record alone: status is the staleness override of its
\* normalized status and parsed date, track_date its raw date text, mode
\* its mode, error null; earlier entries and other records do not matter.
C14_ResultIsOfTheLastEntry ==
    \A i \in Tasks :
        Parsed(i) /\ Validated(Body(i)) =>
            LET last == LastEntry(Body(i))
                date == EntryText(last, "trackDate")
            IN  responses[i] =
                    [lr_number |-> lr_numbers[i],
                     status |-> StalenessOverride(
                                    normalize_status(EntryText(last, "status")),
                                    IF date = <<>> THEN NoDate ELSE strptime(date), Now),
                     track_date |-> EntryField(last, "trackDate"),
                     mode |-> EntryField(last, "mode"),
                     error |-> None]

\* C14: BOOKED came after a stale IN-TRANSIT and a DELIVERED entry, before a
\* second record whose entry is a stale IN-TRANSIT, and the result is Booked.
C14_Witness ==
    \E i \in Tasks :
        /\ Parsed(i) /\ Validated(Body(i))
        /\ Len(Tracking(Body(i))) = 2
        /\ StatusEntries(Body(i))[1] = Entry_InTransitOld
        /\ Len(StatusEntries(Body(i))) = 3
        /\ EntryText(LastEntry(Body(i)), "status") = Chars_Booked
        /\ EntryText(LastEntry(Body(i)), "trackDate") = Date_35Days
        /\ responses[i].status = "Booked"
        /\ responses[i].track_date = "2024-05-11 12:00:00"
        /\ responses[i].mode = "Surface"

\* The status texts that normalize to "In-transit".
InTransitTexts == {Chars_InTransitUpper, Chars_InTransitBlank, Chars_InTransitPadded}

\* The entry has no track date that can be parsed: the field is missing,
\* null, empty or a text that does not match %Y-%m-%d %H:%M:%S.
NoParsedDate(entry) ==
    \/ ~Has(entry, "trackDate")
    \/ entry.v["trackDate"] \in {JNull, JStr(<<>>)}
    \/ entry.v["trackDate"] \in {JStr(t) : t \in RejectedDates}

\* C15: a track date that is absent or does not match the format is not
\* fatal: the result has the normalized status, error null and the raw date
\* text, and an "In-transit" status stays "In-transit".
C15_BadDateIsNotFatal ==
    \A i \in Tasks :
        Parsed(i) /\ Validated(Body(i)) /\ NoParsedDate(LastEntry(Body(i))) =>
            LET last == LastEntry(Body(i))
            IN  /\ responses[i].status = normalize_status(EntryText(last, "status"))
                /\ EntryText(last, "status") \in InTransitTexts =>
                       responses[i].status = "In-transit"
                /\ responses[i].error = None
                /\ responses[i].track_date = EntryField(last, "trackDate")

\* C15: IN-TRANSIT with the date text 2024-13-01 00:00:00 gave In-transit.
C15_Witness ==
    \E i \in Tasks :
        /\ Parsed(i) /\ Validated(Body(i))
        /\ EntryText(LastEntry(Body(i)), "status") = Chars_InTransitUpper
        /\ EntryText(LastEntry(Body(i)), "trackDate") = Date_Month13
        /\ responses[i].status = "In-transit"
        /\ responses[i].track_date = "2024-13-01 00:00:00"
        /\ responses[i].error = None

\* (Now - track date).days of the parsed date texts, Now being
\* 2024-06-15 12:00:00.
AgeInDays(date) ==
    CASE date = Date_35Days -> 35
      [] date = Date_10Days -> 10
      [] date = Date_30Days -> 30
      [] date = Date_30DaysAndMore -> 30
      [] date = Date_31Days -> 31
      [] date = Date_Future -> -16
      [] date = Date_LeapDay -> 1567
      [] date = Date_ShortFields -> 45

\* C16: "In-transit" with a parsed track date becomes "LOST" exactly when
\* the age in whole days is more than LOST_THRESHOLD_DAYS: 35 days give
\* "LOST"; 10 days, 30 whole days and a date in the future "In-transit".
C16_LostAfterThreshold ==
    \A i \in Tasks :
        LET last == LastEntry(Body(i))
            date == EntryText(last, "trackDate")
        IN  /\ Parsed(i) /\ Validated(Body(i))
            /\ EntryText(last, "status") \in InTransitTexts
            /\ date \in ParsedDates
            => /\ responses[i].status =
                      IF AgeInDays(date) > LOST_THRESHOLD_DAYS THEN "LOST" ELSE "In-transit"
               /\ date = Date_35Days => responses[i].status = "LOST"
               /\ date \in {Date_10Days, Date_30Days, Date_30DaysAndMore, Date_Future} =>
                      responses[i].status = "In-transit"

\* C16: In Transit dated 30 days and 23:59:59 before now stayed In-transit.
C16_Witness ==
    \E i \in Tasks :
        /\ Parsed(i) /\ Validated(Body(i))
        /\ EntryText(LastEntry(Body(i)), "status") = Chars_InTransitBlank
        /\ EntryText(LastEntry(Body(i)), "trackDate") = Date_30DaysAndMore
        /\ responses[i].status = "In-transit"

\* C17: a normalized status that is not "In-transit" is returned as it is,
\* whatever the track date, however old.
C17_OtherStatusesPassThrough ==
    \A i \in Tasks :
        Parsed(i) /\ Validated(Body(i)) =>
            LET text == normalize_status(EntryText(LastEntry(Body(i)), "status"))
            IN  text # "In-transit" => responses[i].status = text

\* C17: Out For Delivery dated 2020-02-29 stayed Out for Delivery.
C17_Witness ==
    \E i \in Tasks :
        /\ Parsed(i) /\ Validated(Body(i))
        /\ EntryText(LastEntry(Body(i)), "status") = Chars_OutForDelivery
        /\ EntryText(LastEntry(Body(i)), "trackDate") = Date_LeapDay
        /\ responses[i].status = "Out for Delivery"

\* text is key in some mix of upper and lower case.
IsCaseVariant(text, key) ==
    /\ Len(text) = Len(key)
    /\ \A n \in 1..Len(key) : text[n] \in {key[n], UpperChar(key[n])}

\* The canonical text of each table key.
Canonical(key) ==
    CASE key = <<"d","e","l","i","v","e","r","e","d">> -> "Delivered"
      [] key = <<"i","n","-","t","r","a","n","s","i","t">> -> "In-transit"
      [] key = <<"i","n"," ","t","r","a","n","s","i","t">> -> "In-transit"
      [] key = <<"l","o","s","t">> -> "LOST"
      [] key = <<"o","u","t"," ","f","o","r"," ","d","e","l","i","v","e","r","y">> -> "Out for Delivery"
      [] key = <<"n","o","t"," ","f","o","u","n","d">> -> "NOT FOUND"

\* The status text of the entry task i's fetch has parsed.
RawStatus(i) == EntryText(LastEntry(Body(i)), "status")

TitleCase(text) ==
    [n \in 1..Len(text) |->
        IF n = 1 \/ ~IsCased(text[n - 1]) THEN UpperChar(text[n]) ELSE LowerChar(text[n])]

IsTableKey(text) == \E key \in status_map_keys : IsCaseVariant(text, key)

DeterministicBackend ==
    \A i, j \in Tasks :
        lr_numbers[i] = lr_numbers[j] =>
            \A n \in 1..Len(history[i]) :
                n <= Len(history[j]) => history[i][n] = history[j][n]

\* The LR numbers of the list that are not empty, each once, in the order
\* of their first entry.
RECURSIVE FirstEntries(_)
FirstEntries(l) ==
    IF l = <<>> THEN <<>>
    ELSE LET before == FirstEntries(Front(l))
         IN  IF Last(l) = "" \/ \E k \in 1..Len(before) : before[k] = Last(l)
             THEN before
             ELSE Append(before, Last(l))

\* C20: against a deterministic service and with a fixed clock the mapping
\* trackAll returns is fixed by the list of LR numbers and the answers of
\* the service: the same keys in the same order with the same results,
\* whatever the interleaving and the order in which the fetches ended.
C20_ResultsAreFixedByTheInputs ==
    phase = "done" /\ DeterministicBackend /\ (\A i \in Tasks : Answered(i)) =>
        /\ DOMAIN results = {lr_numbers[i] : i \in Tasks} \ {""}
        /\ \A i \in Tasks :
               lr_numbers[i] # "" => results[lr_numbers[i]] = OwnResult(i)
        /\ KeyOrder(responses, Len(lr_numbers)) = FirstEntries(lr_numbers)

\* C20: two fetches ran at the same time, the second one after a retry, and
\* the mapping holds both results in the order of the list.
C20_Witness ==
    /\ phase = "done" /\ DeterministicBackend /\ (\A i \in Tasks : Answered(i))
    /\ lr_numbers = <<"LR-A", "LR-B">>
    /\ max_concurrent = 2
    /\ slept = <<<<>>, <<1>>>>
    /\ results["LR-A"].status = "NOT FOUND"
    /\ results["LR-B"] = DeliveredResult("LR-B")
    /\ KeyOrder(responses, 2) = <<"LR-A", "LR-B">>

\* The last entry of the list that asks for lr.
LastOccurrence(lr) ==
    CHOOSE k \in DOMAIN lr_numbers :
        lr_numbers[k] = lr /\ \A m \in DOMAIN lr_numbers : lr_numbers[m] = lr => m <= k

\* C21: when trackAll has returned, every distinct LR number of the list has
\* one entry, and the entry is the result of the fetch of its last
\* occurrence in the list, whatever the order in which the fetches ended.
C21_LastOccurrenceWins ==
    phase = "done" =>
        \A lr \in {lr_numbers[i] : i \in DOMAIN lr_numbers} :
            /\ lr \in DOMAIN results
            /\ results[lr] = responses[LastOccurrence(lr)]

\* C22: there is one fetch task per entry of the list, duplicates included:
\* gather returns only when every entry has been fetched, and a task sends
\* one request and one more for each of its own retries.
C22_OneFetchPerEntry ==
    /\ DOMAIN pc = DOMAIN lr_numbers
    /\ \A i \in DOMAIN lr_numbers :
           /\ pc[i] = "waiting" => requests[i] = 0
           /\ pc[i] # "waiting" => requests[i] = 1 + retry_count[i]
           /\ retry_count[i] <= Len(slept[i])
           /\ Len(history[i]) <= requests[i]
    /\ GatherDone \/ phase = "done" => \A i \in DOMAIN lr_numbers : requests[i] >= 1

\* C22: LR-A is twice in the list and was fetched twice, once with one
\* request and once with a retry.
C22_Witness ==
    /\ phase = "done"
    /\ lr_numbers = <<"LR-A", "LR-A">>
    /\ requests = <<1, 2>>
    /\ history[1] # history[2]

\* C23: the dictionary stays empty while gather waits, and it changes only
\* in the step in which gather returns, when every fetch has ended.
C23_MappingWrittenAfterGather ==
    /\ [](phase = "gather" => DOMAIN results = {})
    /\ [][DOMAIN results' # DOMAIN results =>
              /\ \A i \in Tasks : pc[i] \in {"returned", "raised"}
              /\ phase = "gather" /\ phase' = "done"]_vars

\* C23: gather has returned after a retry of one of two fetches and the
\* dictionary is filled.
C23_Witness ==
    /\ phase = "done"
    /\ Len(lr_numbers) = 2
    /\ DOMAIN results # {}
    /\ \E i \in Tasks : slept[i] # <<>>

\* C24 as stated: while a task sleeps between two attempts, every other task
\* that waits to start its fetch can start it, and every other task in the
\* middle of its fetch can go on.
C24_SleepBlocksNoOtherTask ==
    \A i, j \in Tasks :
        i # j /\ pc[i] = "sleeping" =>
            /\ pc[j] = "waiting" => ENABLED Acquire(j)
            /\ pc[j] = "fetching" => ENABLED (\E resp \in BatchResponses : Respond(j, resp))
            /\ pc[j] = "sleeping" => ENABLED Wake(j)

\* C24: while a task sleeps between two attempts, every other task in the
\* middle of its fetch can go on, and every other task that waits to start
\* can start as soon as a token of the semaphore is free; the sleeping task
\* keeps its own token.
C24_SleepBlocksNoTaskWithAToken ==
    \A i, j \in Tasks :
        i # j /\ pc[i] = "sleeping" =>
            /\ pc[j] = "waiting" /\ semaphore > 0 => ENABLED Acquire(j)
            /\ pc[j] = "fetching" => ENABLED (\E resp \in BatchResponses : Respond(j, resp))
            /\ pc[j] = "sleeping" => ENABLED Wake(j)

\* C24: one task sleeps after a timeout, the other waits and a token is free.
C24_Witness ==
    \E i, j \in Tasks :
        /\ pc[i] = "sleeping" /\ slept[i] = <<1>>
        /\ pc[j] = "waiting"
        /\ semaphore = 1
        /\ ENABLED Acquire(j)

\* The delays a fetch with n retries behind it has slept, counted from its
\* own first attempt.
OwnDelays(n) == [k \in 1..n |-> BackoffDelay(k - 1)]

\* C25: the retry count and the backoff delays of a fetch are its own: a step
\* of one task leaves the retry count, the delays and the number of requests
\* of every other task as they were, and in every state the count of a task
\* is the number of its own sleeps that have ended and its delays are the
\* backoff sequence counted from its own first attempt.
C25_RetryStateIsPerFetch ==
    /\ [](\A i \in Tasks :
              /\ Len(slept[i]) = retry_count[i] + (IF pc[i] = "sleeping" THEN 1 ELSE 0)
              /\ slept[i] = OwnDelays(Len(slept[i]))
              /\ pc[i] # "waiting" => requests[i] = 1 + retry_count[i])
    /\ [][\A i \in Tasks :
              pc'[i] = pc[i] =>
                  /\ retry_count'[i] = retry_count[i]
                  /\ slept'[i] = slept[i]
                  /\ requests'[i] = requests[i]]_vars

\* C25: one fetch of a batch of two has used its whole retry budget with
\* the delays 1, 2, 4, the other has returned on its first answer.
C25_Witness ==
    /\ phase = "done"
    /\ Len(lr_numbers) = 2
    /\ retry_count[1] = MAX_RETRIES /\ slept[1] = <<1, 2, 4>>
    /\ retry_count[2] = 0 /\ slept[2] = <<>> /\ pc[2] = "returned"
    /\ Len(history[2]) = 1

Ended(i) == pc[i] \in {"returned", "raised"}

\* C26: under a fair scheduler and a service whose every request ends with a
\* response, a transport error or a timeout, every task that waits for a
\* token eventually has one, every fetch that has started eventually ends,
\* with a result whenever every one of its requests was answered, and
\* trackAll eventually returns and stays returned.
C26_BatchRunsToCompletion ==
    /\ \A i \in 1..MaxLrNumbers :
           (i \in Tasks /\ pc[i] = "waiting") ~> (i \in Tasks /\ pc[i] # "waiting")
    /\ \A i \in 1..MaxLrNumbers :
           (i \in Tasks /\ pc[i] \in {"fetching", "sleeping"}) ~>
               (i \in Tasks /\ Ended(i) /\ (Answered(i) => pc[i] = "returned"))
    /\ <>[](phase = "done")

\* C26: trackAll has returned from a batch of two fetches that shared one
\* token, one of them after using its whole retry budget.
C26_Witness ==
    /\ phase = "done"
    /\ Len(lr_numbers) = 2
    /\ max_concurrent = 1
    /\ \E i \in Tasks : requests[i] = 1 + MAX_RETRIES /\ pc[i] = "returned"
    /\ \A i \in Tasks : Answered(i)

Sleeping == {i \in Tasks : pc[i] = "sleeping"}

\* C27: a task takes its token once and keeps it until its fetch ends: the
\* semaphore goes down only in the step in which a waiting task starts, no
\* task ever waits again, the steps into and out of a backoff sleep leave
\* the semaphore as it is, and the sleeping tasks count against
\* max_concurrent.
C27_TokenHeldAcrossRetries ==
    /\ [](semaphore + Cardinality(Sleeping) <= max_concurrent)
    /\ [][/\ semaphore' < semaphore =>
                 /\ semaphore' = semaphore - 1
                 /\ \E i \in Tasks : pc[i] = "waiting" /\ pc'[i] = "fetching"
          /\ \A i \in Tasks :
                 /\ pc'[i] = "waiting" => pc[i] = "waiting"
                 /\ pc[i] = "fetching" /\ pc'[i] = "sleeping" => semaphore' = semaphore
                 /\ pc[i] = "sleeping" /\ pc'[i] = "fetching" => semaphore' = semaphore
                 /\ pc[i] = "sleeping" => pc'[i] \in {"sleeping", "fetching"}]_vars

\* C27: the only token is with a task in its second backoff sleep, and
\* another task waits for it.
C27_Witness ==
    /\ max_concurrent = 1
    /\ semaphore = 0
    /\ \E i, j \in Tasks :
           /\ pc[i] = "sleeping" /\ slept[i] = <<1, 2>> /\ requests[i] = 2
           /\ pc[j] = "waiting"

\* C28: in every state the free tokens and the tasks that hold one add up
\* to max_concurrent, the step in which a fetch ends, by a result or by an
\* exception, frees one token, and when trackAll has returned every token is
\* free.
C28_TokensAreConserved ==
    /\ [](/\ semaphore \in 0..max_concurrent
          /\ semaphore + Cardinality(InFlight) = max_concurrent
          /\ phase = "done" => semaphore = max_concurrent)
    /\ [][\A i \in Tasks :
              pc[i] \in {"fetching", "sleeping"} /\ pc'[i] \in {"returned", "raised"} =>
                  semaphore' = semaphore + 1]_vars

\* C28: trackAll has returned with both tokens free; one fetch ended with a
\* result, the other with an exception.
C28_Witness ==
    /\ phase = "done"
    /\ max_concurrent = 2
    /\ semaphore = 2
    /\ \E i, j \in Tasks : pc[i] = "returned" /\ pc[j] = "raised"

\* C29: when trackAll has returned, every key of the mapping is an LR number
\* of the input, the result stored under a key carries that key as its
\* lr_number, and it is the result of a fetch that was made for that key.
C29_EntriesAreKeyedByTheirRequest ==
    phase = "done" =>
        \A k \in DOMAIN results :
            /\ k \in {lr_numbers[i] : i \in Tasks}
            /\ results[k].lr_number = k
            /\ \E i \in Tasks : lr_numbers[i] = k /\ pc[i] = "returned" /\ results[k] = responses[i]

\* C29: the mapping holds a failure result for one LR number and a parsed
\* result for another.
C29_Witness ==
    /\ phase = "done"
    /\ lr_numbers = <<"LR-A", "LR-B">>
    /\ DOMAIN results = {"LR-A", "LR-B"}
    /\ results["LR-A"].status = "ERROR"
    /\ results["LR-B"] = DeliveredResult("LR-B")

\* The last element of a non-empty JSON list is no dict.
LastIsNoObject(list) == list.t = "arr" /\ list.v # <<>> /\ list.v[Len(list.v)].t # "obj"

\* The first tracking record is no dict, or its last status entry is none.
RecordOrEntryIsNoObject(tracking) ==
    /\ tracking.t = "arr" /\ tracking.v # <<>>
    /\ \/ tracking.v[1].t # "obj"
       \/ /\ tracking.v[1].t = "obj"
          /\ LastIsNoObject(DictGet(tracking.v[1], "status", JArr(<<>>)))

\* The body is no dict; or its status is "Ok" and its data, the tracking
\* record the parser reads or the status entry the parser reads is no dict.
WrongShape(body) ==
    \/ body.t # "obj"
    \/ /\ body.t = "obj"
       /\ IsText(DictGet(body, "status", JNull), Chars_Ok)
       /\ LET data == DictGet(body, "data", JObj(<<>>))
          IN  \/ data.t # "obj"
              \/ /\ data.t = "obj"
                 /\ RecordOrEntryIsNoObject(DictGet(data, "tracking", JArr(<<>>)))

\* The error texts that start with "Parse error" for a value of each type
\* that is no dict.
ParseErrorTexts ==
    {"Parse error: '" \o type \o "' object has no attribute 'get'" :
         type \in {"NoneType", "str", "int", "list"}}

\* C30: a 200 response whose body is valid JSON of the wrong shape (no dict
\* at the top, or status "Ok" with data, the tracking record read or the
\* status entry read being no dict) ends the fetch on that attempt: it is
\* the last response of the fetch, no sleep and no request follow it, and
\* the result is "ERROR" for the LR number with an error text that starts
\* with "Parse error".
C30_WrongShapeIsAParseError ==
    \A i \in Tasks :
        \A n \in 1..Len(history[i]) :
            history[i][n].kind = "json" /\ WrongShape(history[i][n].body) =>
                /\ n = Len(history[i])
                /\ requests[i] = n
                /\ Len(slept[i]) = n - 1
                /\ pc[i] = "returned"
                /\ responses[i].lr_number = lr_numbers[i]
                /\ responses[i].status = "ERROR"
                /\ responses[i].error \in ParseErrorTexts

\* C30: a fetch answered on its first attempt with status "Ok" and data
\* null has returned "ERROR" without a sleep.
C30_Witness ==
    \E i \in Tasks :
        /\ history[i] = <<Response("json", 200, JObj([status |-> JStr(Chars_Ok), data |-> JNull]))>>
        /\ pc[i] = "returned"
        /\ slept[i] = <<>>
        /\ responses[i].status = "ERROR"
        /\ responses[i].error = "Parse error: 'NoneType' object has no attribute 'get'"

FailureKeys == {"lr_number", "status", "error"}
EntryKeys == {"lr_number", "status", "track_date", "mode", "error"}

\* C31: in every result a fetch returns, status "ERROR" comes with an error
\* that is not null; a null error comes only with the five-key result of a
\* payload that passed validation, which carries track_date and mode; and a
\* result with an error carries neither track_date nor mode.
C31_ErrorFieldMatchesTheResult ==
    \A i \in Tasks :
        pc[i] = "returned" /\ Answered(i) =>
            /\ "error" \in DOMAIN responses[i]
            /\ responses[i].status = "ERROR" => responses[i].error # None
            /\ responses[i].error = None =>
                   /\ DOMAIN responses[i] = EntryKeys
                   /\ Last(history[i]).kind = "json"
                   /\ Validated(Body(i))
            /\ responses[i].error # None => DOMAIN responses[i] = FailureKeys

\* C32: normalize_status applied to a text it has returned returns that text
\* again: when the status text of one payload is the status another fetch
\* returned, both fetches return the same status.
C32_NormalizeIsIdempotent ==
    \A i, j \in Tasks :
        /\ Parsed(i) /\ Validated(Body(i))
        /\ Parsed(j) /\ Validated(Body(j))
        /\ Join(RawStatus(j)) = responses[i].status
        => responses[j].status = responses[i].status

\* The LR number of a row as the handler compares it, and whether the row
\* is one the handler may update.
LrText(row) == Join(astype_str(row.LrNumber))
Tracked(row) ==
    /\ row.DeliveryFormat = NaN
    /\ Len(astype_str(row.LrNumber)) = LR_NUMBER_LENGTH
    /\ LrText(row) \in DOMAIN results

\* C33: a handler of /process changes the Current Status of a row only if
\* the row's Delivery Format is missing, its LR number has exactly
\* LR_NUMBER_LENGTH characters and the results have an entry for it; when it
\* updates, such a row gets the status of its result, ERROR and NOT FOUND
\* included, and the Delivery Format 'done'; no row is added, removed or
\* given another LR number, and the Current Status of every other row stays.
C33_OnlyTrackedRowsAreUpdated ==
    [][/\ DOMAIN df' = DOMAIN df
       /\ \A r \in DOMAIN df :
              /\ df'[r].LrNumber = df[r].LrNumber
              /\ df'[r].CurrentStatus # df[r].CurrentStatus => Tracked(df[r])
              /\ (result = <<>> /\ result' # <<>> /\ Tracked(df[r])) =>
                     /\ df'[r].CurrentStatus = results[LrText(df[r])].status
                     /\ df'[r].DeliveryFormat = "done"
              /\ ~Tracked(df[r]) =>
                     df'[r].DeliveryFormat \in {df[r].DeliveryFormat,
                                                astype_str_text(df[r].DeliveryFormat)}]_vars

\* The handler has returned: a tracked row carries NOT FOUND and 'done', and
\* a row of the same LR number whose Delivery Format was filled is as it was.
C33_Witness ==
    /\ result # <<>>
    /\ Len(df) = 2
    /\ df[1] = [LrNumber |-> Lr_A, DeliveryFormat |-> "done", CurrentStatus |-> "NOT FOUND"]
    /\ df[2] = [LrNumber |-> Lr_A, DeliveryFormat |-> "POD", CurrentStatus |-> "Booked"]

\* The set of the members of a list.
Members(list) == {list[k] : k \in 1..Len(list)}

\* C36: the LR numbers of the rows whose Delivery Format is missing are
\* split into the valid ones, of exactly LR_NUMBER_LENGTH characters, and
\* the invalid ones; the valid list, in row order, is what
\* track_multiple_lr_numbers gets, and no request is made for an LR number
\* of the invalid list.
C36_OnlyValidLrNumbersAreTracked ==
    /\ result = <<>> =>
           /\ \A r \in DOMAIN df :
                  df[r].DeliveryFormat = NaN =>
                      LET lr == astype_str(df[r].LrNumber)
                      IN  /\ lr \in Members(valid_lr_numbers(df)) <=> Len(lr) = LR_NUMBER_LENGTH
                          /\ lr \in Members(invalid_lr_numbers(df)) <=> Len(lr) # LR_NUMBER_LENGTH
           /\ Len(valid_lr_numbers(df)) + Len(invalid_lr_numbers(df))
                  = Cardinality({r \in DOMAIN df : df[r].DeliveryFormat = NaN})
           /\ lr_numbers = Texts(valid_lr_numbers(df))
    /\ result # <<>> =>
           /\ lr_numbers = Texts(result[1].valid_lr_numbers)
           /\ \A lr \in Members(result[1].valid_lr_numbers) : Len(lr) = LR_NUMBER_LENGTH
           /\ \A lr \in Members(result[1].invalid_lr_numbers) :
                  /\ Len(lr) # LR_NUMBER_LENGTH
                  /\ \A i \in Tasks : lr_numbers[i] # Join(lr)
                  /\ Join(lr) \notin DOMAIN results
           /\ Len(result[1].valid_lr_numbers) + Len(result[1].invalid_lr_numbers)
                  = result[1].na_count

\* The handler has returned for a workbook with a valid and a too short LR
\* number: one request was made, for the valid one.
C36_Witness ==
    /\ result # <<>>
    /\ result[1].valid_lr_numbers = <<Lr_B>>
    /\ result[1].invalid_lr_numbers = <<Lr_Short>>
    /\ lr_numbers = <<Join(Lr_B)>>
    /\ requests = <<1>>

\* What the handler has got back: an analysis, or one category.
Analysed == result # <<>> /\ "totals" \in DOMAIN result[1]
Categorized == result # <<>> /\ "category" \in DOMAIN result[1]

\* A delay of more than 0 days, as analyze_delays sees it after the
\* cleaning of line 232.
PositiveDelay(cell) == cell.kind = "number" /\ cell.halves > 0

\* The sum of one column over the data rows of a result.
RECURSIVE ColumnSum(_, _)
ColumnSum(result_data, column) ==
    IF result_data = <<>> THEN 0
    ELSE ColumnSum(SubSeq(result_data, 1, Len(result_data) - 1), column)
             + (IF column = "grand_total" THEN result_data[Len(result_data)].grand_total
                ELSE CountOf(result_data[Len(result_data)][column]))

\* C34: in the result of analyze_delays the grand_total of every data row
\* is the sum of its five buckets, the totals row is the column-wise sum of
\* the data rows, and totals.grand_total is the number of rows of the
\* workbook whose delay is positive.
C34_EveryDelayedRowIsCountedOnce ==
    Analysed =>
        LET data == result[1].data
            totals == result[1].totals
        IN  /\ \A k \in DOMAIN data :
                   data[k].grand_total
                       = CountOf(data[k].delay_by_1_day) + CountOf(data[k].delay_by_2_days)
                             + CountOf(data[k].delay_by_3_days)
                             + CountOf(data[k].delay_by_4_days)
                             + CountOf(data[k].delay_by_5_plus_days)
            /\ \A c \in DOMAIN delay_columns :
                   CountOf(totals[delay_columns[c]]) = ColumnSum(data, delay_columns[c])
            /\ totals.grand_total = ColumnSum(data, "grand_total")
            /\ totals.grand_total
                   = Cardinality({r \in DOMAIN df : PositiveDelay(df[r].delay)})

\* The category C35 allows for a delay value: none for a missing,
\* non-numeric, zero or negative one, delay_by_N for exactly N days in 1..4,
\* delay_by_5_plus_days for 5 days or more, and none of the five otherwise.
AllowedCategories(delay_value) ==
    LET parsed == IF delay_value.kind = "number"
                  THEN [ok |-> TRUE, halves |-> delay_value.halves]
                  ELSE IF delay_value.kind = "text" THEN ParseFloat(delay_value.text)
                  ELSE NoNumber
    IN  IF ~parsed.ok \/ parsed.halves <= 0 THEN {None}
        ELSE IF parsed.halves = 2 THEN {"delay_by_1_day"}
        ELSE IF parsed.halves = 4 THEN {"delay_by_2_days"}
        ELSE IF parsed.halves = 6 THEN {"delay_by_3_days"}
        ELSE IF parsed.halves = 8 THEN {"delay_by_4_days"}
        ELSE IF parsed.halves >= 10 THEN {"delay_by_5_plus_days"}
        ELSE {None}

\* C35: categorize_delay returns no bucket for a missing, non-numeric, zero
\* or negative delay, delay_by_N_day(s) for a delay of exactly N in 1..4,
\* and delay_by_5_plus_days only for a delay of 5 or more; the same holds
\* for the delay_category of every row an analysis has categorized.
C35_BucketsFollowTheDelay ==
    /\ Categorized => result[1].category \in AllowedCategories(result[1].delay_value)
    /\ Analysed =>
           \A r \in DOMAIN df : df[r].delay_category \in AllowedCategories(df[r].delay)

=============================================================================
